---- MODULE Spec2Model ----
(***************************************************************************)
(* Data-ownership and referential-integrity model of the to-do backend:    *)
(* the Category and Task ledgers (backend/routes/categories.js and         *)
(* backend/routes/tasks.js, printed in SETUP.md), the mongoose models      *)
(* (backend/models/Category.js, Task.js) and the hooks they install.       *)
(*                                                                         *)
(* Spec      one request at a time: every action is a whole route handler. *)
(* SpecTasks the attributes of tasks under the clock, behind the access    *)
(*           guard.                                                        *)
(* SpecAccounts  registration of users.                                    *)
(* SpecList  the task list with its filters and its search.                *)
(* SpecRace  a task create and a category delete in flight together.       *)
(* SpecDup  two category creates in flight together.                       *)
(* SpecStats  the task overview's count queries among task writes.         *)
(* SpecClient  the app's auth state under login and logout calls.          *)
(* SpecAuth  every call of the auth provider, await by await; SpecAuthLive *)
(* adds that awaited calls settle.                                         *)
(* SpecTaskClient  the app's task provider in front of the task and        *)
(*           category routes, with two calls open at once.                 *)
(* SpecMock  the in-memory mock server (backend/server-mock.js).           *)
(* SpecShutdown  the start script's graceful shutdown.                     *)
(* SpecLogin authentication of the stored users.                           *)
(* SpecOrder the order and activity of categories: create, reorder,        *)
(*           toggle.                                                       *)
(* SpecNames the category routes alone, with the names that tell the name  *)
(*           checks apart (letter case, regular-expression characters).    *)
(* SpecConc  two task requests in flight: one action per awaited storage   *)
(*           operation of POST/PUT/DELETE /tasks, and a request may stop   *)
(*           at any await (storage error or process stop).                 *)
(***************************************************************************)
EXTENDS Integers, Sequences, FiniteSets, TLC

VARIABLES
    users,      \* ids of the registered users
    tasks,      \* the tasks collection: _id -> document
    cats,       \* the categories collection: _id -> document
    nextTask,   \* next fresh task _id
    nextCat,    \* next fresh category _id
    reqs,       \* SpecConc: the requests, one per slot; SpecShutdown: the process
    now,        \* the server's clock, in milliseconds (new Date())
    accounts,   \* SpecAccounts: the users collection, _id -> email and username
    client      \* the app: its auth state, storage and call in flight (SpecClient,
                \* SpecAuth); its task state and open calls (SpecTaskClient)

vars == <<users, tasks, cats, nextTask, nextCat, reqs, now, accounts, client>>

(***************************************************************************)
(* Bounds of the model.                                                    *)
(***************************************************************************)
MaxTasks == 2       \* Spec: task documents ever created
MaxCustom == 1      \* Spec: user-created category documents ever created
MaxNamed == 2       \* SpecNames: user-created category documents ever created
CountFloor == 1     \* a request that would store taskCount < -CountFloor is not explored
MaxTicks == 3       \* SpecTasks: half days the clock advances

\* 24 * 60 * 60 * 1000: the window of 'due-soon', in milliseconds
DayMs == 86400000

\* The accounts, in the order in which they register.
UserIds == <<"A", "B">>
AllUsers == {UserIds[i] : i \in 1..Len(UserIds)}

(***************************************************************************)
(* Strings are sequences of one-character strings, so that the regular     *)
(* expression built from a name can be matched as the engine matches it.   *)
(***************************************************************************)
NameWork == <<"W", "o", "r", "k">>
NamePersonal == <<"P", "e", "r", "s", "o", "n", "a", "l">>
NameShopping == <<"S", "h", "o", "p", "p", "i", "n", "g">>
NameHealth == <<"H", "e", "a", "l", "t", "h">>
NameLearning == <<"L", "e", "a", "r", "n", "i", "n", "g">>
NameTravel == <<"T", "r", "a", "v", "e", "l">>

\* defaultCategories of createDefaults, in order; sortOrder is the index
DefaultNames ==
    <<NameWork, NamePersonal, NameShopping, NameHealth, NameLearning, NameTravel>>

\* Names a client sends in the body of POST/PUT /categories (all pass
\* validateCategory: trimmed length 1..30).
NameInputs ==
    { <<"w", "o", "r", "k">>, <<"x">>, <<"X">>, <<"a", "+">>, <<"A", "+">>, <<"+">> }

\* The one name Spec gives the categories it creates: there the categories
\* matter as targets of task references, not for their names.
LedgerNames == { <<"x">> }

ToLowerChar(c) ==
    CASE c = "A" -> "a"
      [] c = "H" -> "h"
      [] c = "L" -> "l"
      [] c = "P" -> "p"
      [] c = "S" -> "s"
      [] c = "T" -> "t"
      [] c = "W" -> "w"
      [] c = "X" -> "x"
      [] OTHER -> c

ToLower(s) == [i \in 1..Len(s) |-> ToLowerChar(s[i])]

\* Two names are equal ignoring letter case.
SameNameIgnoringCase(a, b) == ToLower(a) = ToLower(b)

(***************************************************************************)
(* new RegExp(`^${name}$`, 'i'): the name is pasted into the pattern       *)
(* unescaped.  Over the characters used here the only metacharacter is the *)
(* quantifier "+" (one or more of the preceding atom); a "+" with nothing  *)
(* to repeat makes the constructor throw SyntaxError.                      *)
(***************************************************************************)
RegExpThrows(p) ==
    \E i \in 1..Len(p) : p[i] = "+" /\ (i = 1 \/ p[i - 1] = "+")

SubSeqFrom(s, i) == SubSeq(s, i, Len(s))

RECURSIVE RegExpMatch(_, _)
RegExpMatch(p, s) ==
    IF Len(p) = 0 THEN Len(s) = 0
    ELSE IF Len(p) >= 2 /\ p[2] = "+"
    THEN \E k \in 1..Len(s) :
            /\ \A j \in 1..k : ToLowerChar(s[j]) = ToLowerChar(p[1])
            /\ RegExpMatch(SubSeqFrom(p, 3), SubSeqFrom(s, k + 1))
    ELSE /\ Len(s) >= 1
         /\ ToLowerChar(s[1]) = ToLowerChar(p[1])
         /\ RegExpMatch(Tail(p), Tail(s))

(***************************************************************************)
(* JavaScript values of a categoryId: the request body carries a string or *)
(* nothing (undefined); a stored document carries an ObjectId or null.     *)
(***************************************************************************)
Undefined == [t |-> "undefined", id |-> 0]
Null == [t |-> "null", id |-> 0]
Str(id) == [t |-> "string", id |-> id]
Oid(id) == [t |-> "ObjectId", id |-> id]

\* a Date, in milliseconds since the epoch
DateVal(ms) == [t |-> "Date", id |-> ms]

Truthy(v) == v.t \in {"string", "ObjectId", "Date"}

\* a !== b: values of different types always differ; two strings differ by
\* value; two distinct ObjectId objects differ by reference.
StrictNotEqual(a, b) ==
    \/ a.t # b.t
    \/ a.t = "string" /\ a.id # b.id
    \/ a.t = "ObjectId"

NoDoc == 0      \* the null a findOne returns; no document has _id 0

Msg(text, n) == [text |-> text, n |-> n]

(***************************************************************************)
(* Storage queries.  t and c are the tasks and categories collections.     *)
(***************************************************************************)
\* Task.findOne({ _id: id }): the query without the owner filter.
FindTaskAnyOwner(t, id, userId) ==
    IF id \in DOMAIN t THEN id ELSE NoDoc

\* Task.findOne({ _id: id, userId })
FindTask(t, id, userId) ==
    IF id \in DOMAIN t /\ t[id].userId = userId THEN id ELSE NoDoc

\* Category.findOne({ _id: id, userId })
FindCategory(c, id, userId) ==
    IF id \in DOMAIN c /\ c[id].userId = userId THEN id ELSE NoDoc

\* Task.countDocuments({ categoryId: id })
CountTasks(t, id) ==
    Cardinality({k \in DOMAIN t : t[k].categoryId = Oid(id)})

\* Category.findByIdAndUpdate(id, { $inc: { taskCount: d } })
IncTaskCount(c, id, d) ==
    IF id \in DOMAIN c THEN [c EXCEPT ![id].taskCount = @ + d] ELSE c

SetMin(S) == CHOOSE x \in S : \A y \in S : x <= y
SetMax(S) == CHOOSE x \in S : \A y \in S : x >= y

\* Category.findByNameAndUser(name, userId): the first document of the user
\* whose name the pattern matches, or null.
FindByNameAndUser(c, name, userId) ==
    LET hits == {k \in DOMAIN c : c[k].userId = userId /\ RegExpMatch(name, c[k].name)}
    IN  IF hits = {} THEN NoDoc ELSE SetMin(hits)

\* The unique index { userId: 1, name: 1 }: a write of (userId, name) into
\* document id is rejected (E11000) when another document holds the pair.
UniqueIndexRejects(c, id, name, userId) ==
    \E k \in DOMAIN c : k # id /\ c[k].userId = userId /\ c[k].name = name

\* categorySchema.pre('save'): a document whose name is new or modified is
\* rejected when findByNameAndUser finds another document.
PreSaveRejects(c, id, name, userId) ==
    LET found == FindByNameAndUser(c, name, userId)
    IN  found # NoDoc /\ found # id

\* categorySchema.pre('remove'): detach the tasks that reference the category.
PreRemove(t, id) ==
    [k \in DOMAIN t |->
        IF t[k].categoryId = Oid(id) THEN [t[k] EXCEPT !.categoryId = Null] ELSE t[k]]

\* the documents Category.createDefaults(userId) hands to insertMany
DefaultDocs(userId) ==
    [i \in 1..Len(DefaultNames) |->
        [name |-> DefaultNames[i], userId |-> userId,
         isDefault |-> TRUE, isActive |-> TRUE, taskCount |-> 0, sortOrder |-> i]]

\* Category.insertMany(docs) on the collection c, ordered: the documents are
\* inserted one after the other under the fresh ids first, first + 1, ...;
\* at the first one the unique index rejects, the call stops with E11000
\* and the documents inserted before it stay.
RECURSIVE InsertMany(_, _, _)
InsertMany(c, docs, first) ==
    IF docs = <<>> THEN [cats |-> c, next |-> first, error |-> "none"]
    ELSE IF UniqueIndexRejects(c, first, docs[1].name, docs[1].userId)
    THEN [cats |-> c, next |-> first, error |-> "E11000"]
    ELSE InsertMany([k \in DOMAIN c \cup {first} |-> IF k = first THEN docs[1] ELSE c[k]],
                    Tail(docs), first + 1)

\* createDefaults with the documents not marked as defaults
CreateDefaultsUnmarked(c, userId, first) ==
    InsertMany(c, [i \in 1..Len(DefaultNames) |->
                      [DefaultDocs(userId)[i] EXCEPT !.isDefault = FALSE]], first).cats

\* Category.createDefaults(userId): the collection after insertMany of the
\* six default documents.
CreateDefaults(c, userId, first) == InsertMany(c, DefaultDocs(userId), first).cats

(***************************************************************************)
(* Route handlers, one request at a time.  Each gives the collections      *)
(* after the request and the response.                                     *)
(***************************************************************************)
Result(t, c, nt, nc, status, message, data) ==
    [tasks |-> t, cats |-> c, nextTask |-> nt, nextCat |-> nc,
     status |-> status, message |-> message, data |-> data]

\* a response that leaves the collections as they are
Reply(status, text) ==
    Result(tasks, cats, nextTask, nextCat, status, Msg(text, 0), NoDoc)

Response(r) == [status |-> r.status, message |-> r.message, data |-> r.data]

\* POST /api/tasks that saves the task and leaves the category's count alone.
TaskPostUncounted(actor, categoryId) ==
    IF Truthy(categoryId) /\ FindCategory(cats, categoryId.id, actor) = NoDoc
    THEN Reply(400, "Invalid category")
    ELSE LET doc == [userId |-> actor,
                     categoryId |-> IF Truthy(categoryId) THEN Oid(categoryId.id) ELSE Null,
                     completed |-> FALSE, dueDate |-> Null]
         IN  Result([k \in DOMAIN tasks \cup {nextTask} |->
                        IF k = nextTask THEN doc ELSE tasks[k]],
                    cats, nextTask + 1, nextCat, 201,
                    Msg("Task created successfully", 0), nextTask)

\* POST /api/tasks
TaskPost(actor, categoryId) ==
    IF Truthy(categoryId) /\ FindCategory(cats, categoryId.id, actor) = NoDoc
    THEN Reply(400, "Invalid category")
    ELSE LET doc == [userId |-> actor,
                     categoryId |-> IF Truthy(categoryId) THEN Oid(categoryId.id) ELSE Null,
                     completed |-> FALSE, dueDate |-> Null]
             t1 == [k \in DOMAIN tasks \cup {nextTask} |->
                        IF k = nextTask THEN doc ELSE tasks[k]]
             c1 == IF Truthy(categoryId) THEN IncTaskCount(cats, categoryId.id, 1) ELSE cats
         IN  Result(t1, c1, nextTask + 1, nextCat, 201,
                    Msg("Task created successfully", 0), nextTask)

\* PUT /api/tasks/:id
TaskPut(actor, id, categoryId) ==
    IF FindTask(tasks, id, actor) = NoDoc THEN Reply(404, "Task not found")
    ELSE LET oldCategoryId == tasks[id].categoryId IN
         IF /\ Truthy(categoryId) /\ StrictNotEqual(categoryId, oldCategoryId)
            /\ FindCategory(cats, categoryId.id, actor) = NoDoc
         THEN Reply(400, "Invalid category")
         ELSE LET t1 == IF categoryId # Undefined
                        THEN [tasks EXCEPT ![id].categoryId = Oid(categoryId.id)]
                        ELSE tasks
                  c1 == IF Truthy(oldCategoryId) /\ StrictNotEqual(oldCategoryId, categoryId)
                        THEN IncTaskCount(cats, oldCategoryId.id, -1)
                        ELSE cats
                  c2 == IF Truthy(categoryId) /\ StrictNotEqual(categoryId, oldCategoryId)
                        THEN IncTaskCount(c1, categoryId.id, 1)
                        ELSE c1
              IN  Result(t1, c2, nextTask, nextCat, 200,
                         Msg("Task updated successfully", 0), id)

\* DELETE /api/tasks/:id
TaskDelete(actor, id) ==
    IF FindTask(tasks, id, actor) = NoDoc THEN Reply(404, "Task not found")
    ELSE LET categoryId == tasks[id].categoryId
             t1 == [k \in DOMAIN tasks \ {id} |-> tasks[k]]
             c1 == IF Truthy(categoryId) THEN IncTaskCount(cats, categoryId.id, -1) ELSE cats
         IN  Result(t1, c1, nextTask, nextCat, 200,
                    Msg("Task deleted successfully", 0), NoDoc)

\* GET /api/tasks/:id
TaskGet(actor, id) ==
    IF FindTask(tasks, id, actor) = NoDoc THEN Reply(404, "Task not found")
    ELSE Result(tasks, cats, nextTask, nextCat, 200, Msg("", 0), id)

\* task.save(): the paths of taskSchema are written; a property assigned to
\* the document that is no path of the schema is not (the schema is strict).
SaveTask(doc) == [f \in DOMAIN doc \ {"completedAt"} |-> doc[f]]

\* completedAt as read from a document
CompletedAtOf(doc) ==
    IF "completedAt" \in DOMAIN doc THEN doc.completedAt ELSE Undefined

\* markComplete's assignments in place of toggleComplete's
ToggleCompleteMarks(doc, at) ==
    [completedAt |-> DateVal(at)] @@ [doc EXCEPT !.completed = TRUE]

\* taskSchema.methods.toggleComplete at time at: the document in memory
\* after the assignments, before save()
ToggleComplete(doc, at) ==
    LET completed == ~doc.completed IN
    [completedAt |-> IF completed THEN DateVal(at) ELSE Undefined]
        @@ [doc EXCEPT !.completed = completed]

\* the tasks collection t after task.toggleComplete() on document id at time at
ToggledTasks(t, id, at) ==
    [t EXCEPT ![id] = SaveTask(ToggleComplete(t[id], at))]

\* PATCH /api/tasks/:id/complete
TaskToggle(actor, id) ==
    IF FindTask(tasks, id, actor) = NoDoc THEN Reply(404, "Task not found")
    ELSE LET t1 == ToggledTasks(tasks, id, now)
         IN  Result(t1, cats, nextTask, nextCat, 200,
                    Msg(IF t1[id].completed THEN "Task marked as complete"
                        ELSE "Task marked as incomplete", 0), id)

\* POST /api/tasks with a dueDate in the body (an ISO 8601 string, stored as
\* a Date; null when the body has none)
TaskPostDue(actor, categoryId, dueDate) ==
    LET r == TaskPost(actor, categoryId) IN
    IF r.status # 201 \/ dueDate = Undefined THEN r
    ELSE [r EXCEPT !.tasks[r.data].dueDate = dueDate]

\* the status virtual with the overdue test left out
StatusWithoutOverdue(doc, at) ==
    IF doc.completed THEN "completed"
    ELSE IF Truthy(doc.dueDate) /\ doc.dueDate.id - at < DayMs THEN "due-soon"
    ELSE "pending"

\* taskSchema.virtual('status') read at time at
Status(doc, at) ==
    IF doc.completed THEN "completed"
    ELSE IF Truthy(doc.dueDate) /\ at > doc.dueDate.id THEN "overdue"
    ELSE IF Truthy(doc.dueDate) /\ doc.dueDate.id - at < DayMs THEN "due-soon"
    ELSE "pending"

\* a query of countDocuments: the owners and the values of completed it
\* admits, and the bound of dueDate: { $lt: ... } (Undefined when the query
\* has no condition on dueDate)
Query(userIds, completed, dueLt) ==
    [userId |-> userIds, completed |-> completed, dueLt |-> dueLt]

\* document d satisfies query q; $lt a Date matches only a dueDate that is
\* a Date, not null
Matches(d, q) ==
    /\ d.userId \in q.userId
    /\ d.completed \in q.completed
    /\ q.dueLt = Undefined \/ (d.dueDate.t = "Date" /\ d.dueDate.id < q.dueLt.id)

\* Task.countDocuments(q) on the collection t
CountDocuments(t, q) == Cardinality({k \in DOMAIN t : Matches(t[k], q)})

\* Math.round(x / y * 100) for integers x >= 0, y > 0
RoundPercent(x, y) == (200 * x + y) \div (2 * y)

\* the overview with the counts taken over the tasks of every user
StatsOfEveryUser(t, userId, at) ==
    LET total == CountDocuments(t, Query(AllUsers, BOOLEAN, Undefined))
        completed == CountDocuments(t, Query(AllUsers, {TRUE}, Undefined))
    IN  [total |-> total,
         completed |-> completed,
         pending |-> CountDocuments(t, Query(AllUsers, {FALSE}, Undefined)),
         overdue |-> CountDocuments(t, Query(AllUsers, {FALSE}, DateVal(at))),
         completionRate |-> IF total > 0 THEN RoundPercent(completed, total) ELSE 0]

\* GET /api/tasks/stats/overview over the collection t at time at: the data
\* of the response (highPriority, which counts by a field not modelled, is
\* left out)
StatsOf(t, userId, at) ==
    LET total == CountDocuments(t, Query({userId}, BOOLEAN, Undefined))
        completed == CountDocuments(t, Query({userId}, {TRUE}, Undefined))
    IN  [total |-> total,
         completed |-> completed,
         pending |-> CountDocuments(t, Query({userId}, {FALSE}, Undefined)),
         overdue |-> CountDocuments(t, Query({userId}, {FALSE}, DateVal(at))),
         completionRate |-> IF total > 0 THEN RoundPercent(completed, total) ELSE 0]

\* GET /api/tasks/stats/overview
TaskStats(actor) ==
    Result(tasks, cats, nextTask, nextCat, 200, Msg("", 0), StatsOf(tasks, actor, now))

\* GET /api/categories/:id that reads by _id and then compares the owner:
\* another user's category is answered 403 instead of 404.
CatGetForbidden(actor, id) ==
    IF id \notin DOMAIN cats THEN Reply(404, "Category not found")
    ELSE IF cats[id].userId # actor THEN Reply(403, "Access denied")
    ELSE Result(tasks, cats, nextTask, nextCat, 200, Msg("", 0), id)

\* GET /api/categories/:id
CatGet(actor, id) ==
    IF FindCategory(cats, id, actor) = NoDoc THEN Reply(404, "Category not found")
    ELSE Result(tasks, cats, nextTask, nextCat, 200, Msg("", 0), id)

\* Stand-in for 2^53 = 9007199254740992, the least number d of JavaScript
\* (an IEEE 754 double) with d + 1 = d; the integers of the model checker
\* have 32 bits.  No larger number is explored.
TwoTo53 == 1000

\* n + 1 as JavaScript computes it, for 0 <= n <= 2^53
PlusOne(n) == IF n >= TwoTo53 THEN n ELSE n + 1

\* POST /api/categories
CatPost(actor, name) ==
    IF RegExpThrows(name) THEN Reply(500, "Server error while creating category")
    ELSE IF FindByNameAndUser(cats, name, actor) # NoDoc
    THEN Reply(400, "Category name already exists")
    ELSE LET own == {k \in DOMAIN cats : cats[k].userId = actor}
             sortOrder == IF own = {} THEN 0
                          ELSE PlusOne(SetMax({cats[k].sortOrder : k \in own}))
             doc == [name |-> name, userId |-> actor, isDefault |-> FALSE,
                     isActive |-> TRUE, taskCount |-> 0, sortOrder |-> sortOrder]
         IN  IF \/ PreSaveRejects(cats, nextCat, name, actor)
                \/ UniqueIndexRejects(cats, nextCat, name, actor)
             THEN Reply(500, "Server error while creating category")
             ELSE Result(tasks,
                         [k \in DOMAIN cats \cup {nextCat} |->
                             IF k = nextCat THEN doc ELSE cats[k]],
                         nextTask, nextCat + 1, 201,
                         Msg("Category created successfully", 0), nextCat)

\* PUT /api/categories/:id
CatPut(actor, id, name) ==
    IF FindCategory(cats, id, actor) = NoDoc THEN Reply(404, "Category not found")
    ELSE IF name # cats[id].name /\ RegExpThrows(name)
    THEN Reply(500, "Server error while updating category")
    ELSE IF name # cats[id].name /\ FindByNameAndUser(cats, name, actor) # NoDoc
    THEN Reply(400, "Category name already exists")
    ELSE IF UniqueIndexRejects(cats, id, name, actor)
    THEN Reply(500, "Server error while updating category")
    ELSE Result(tasks, [cats EXCEPT ![id].name = name], nextTask, nextCat, 200,
                Msg("Category updated successfully", 0), id)

\* DELETE /api/categories/:id without the in-use check and without the
\* pre('remove') hook: the category goes, the references to it stay.
CatDeleteDangling(actor, id) ==
    IF FindCategory(cats, id, actor) = NoDoc THEN Reply(404, "Category not found")
    ELSE IF cats[id].isDefault THEN Reply(400, "Cannot delete default categories")
    ELSE Result(tasks, [k \in DOMAIN cats \ {id} |-> cats[k]], nextTask, nextCat, 200,
                Msg("Category deleted successfully", 0), NoDoc)

\* DELETE /api/categories/:id without the isDefault check.
CatDeleteAnyCategory(actor, id) ==
    IF FindCategory(cats, id, actor) = NoDoc THEN Reply(404, "Category not found")
    ELSE LET taskCount == CountTasks(tasks, id) IN
         IF taskCount > 0
         THEN Result(tasks, cats, nextTask, nextCat, 400,
                     Msg("Cannot delete category with task(s)", taskCount), NoDoc)
         ELSE Result(PreRemove(tasks, id), [k \in DOMAIN cats \ {id} |-> cats[k]],
                     nextTask, nextCat, 200,
                     Msg("Category deleted successfully", 0), NoDoc)

\* DELETE /api/categories/:id
CatDelete(actor, id) ==
    IF FindCategory(cats, id, actor) = NoDoc THEN Reply(404, "Category not found")
    ELSE IF cats[id].isDefault THEN Reply(400, "Cannot delete default categories")
    ELSE LET taskCount == CountTasks(tasks, id) IN
         IF taskCount > 0
         THEN Result(tasks, cats, nextTask, nextCat, 400,
                     Msg("Cannot delete category with task(s)", taskCount), NoDoc)
         ELSE Result(PreRemove(tasks, id), [k \in DOMAIN cats \ {id} |-> cats[k]],
                     nextTask, nextCat, 200,
                     Msg("Category deleted successfully", 0), NoDoc)

\* the categories collection c after category.isActive = !category.isActive
\* and category.save() on document id
ToggledCats(c, id) == [c EXCEPT ![id].isActive = ~@]

\* PATCH /api/categories/:id/toggle
CatToggle(actor, id) ==
    IF FindCategory(cats, id, actor) = NoDoc THEN Reply(404, "Category not found")
    ELSE LET c1 == ToggledCats(cats, id)
         IN  Result(tasks, c1, nextTask, nextCat, 200,
                    Msg(IF c1[id].isActive THEN "Category activated successfully"
                        ELSE "Category deactivated successfully", 0), id)

\* PATCH /api/categories/:id/reorder, after validation
CatReorder(actor, id, sortOrder) ==
    IF FindCategory(cats, id, actor) = NoDoc THEN Reply(404, "Category not found")
    ELSE Result(tasks, [cats EXCEPT ![id].sortOrder = sortOrder], nextTask, nextCat,
                200, Msg("Category order updated successfully", 0), id)

\* a sortOrder of the body that is no integer: 1.5
Fraction == [t |-> "fraction", id |-> 1]

\* body('sortOrder').isInt({ min: 0 }): an integer that is not negative
\* (absent, a fraction and a negative number fail)
IsIntMin0(v) == v.t = "number" /\ v.id >= 0

\* reorder without the validation of the body
CatReorderUnvalidated(actor, id, sortOrder) ==
    IF sortOrder.t = "number" THEN CatReorder(actor, id, sortOrder.id)
    ELSE CatReorder(actor, id, 0)

\* PATCH /api/categories/:id/reorder with the body's sortOrder
CatReorderBody(actor, id, sortOrder) ==
    IF ~IsIntMin0(sortOrder) THEN Reply(400, "Validation failed")
    ELSE CatReorder(actor, id, sortOrder.id)

\* Registration: when a user registers, the default categories are created
\* for it (Category.createDefaults).
RegisterUser(userId) ==
    Result(tasks, CreateDefaults(cats, userId, nextCat), nextTask,
           nextCat + Len(DefaultNames), 200, Msg("User registered successfully", 0), NoDoc)

(***************************************************************************)
(* The access guard (middleware/auth.js) in front of every task and        *)
(* category route.  A token is what jwt.verify tells apart: whether it     *)
(* parses, whether its signature was made with the server's secret, and    *)
(* the claims of its payload (exp and nbf in seconds, or absent).          *)
(***************************************************************************)
Num(n) == [t |-> "number", id |-> n]

EmptyToken == [kind |-> "empty", signed |-> FALSE, userId |-> "none",
               exp |-> Undefined, nbf |-> Undefined]
MalformedToken == [kind |-> "malformed", signed |-> FALSE, userId |-> "none",
                   exp |-> Undefined, nbf |-> Undefined]
Jwt(userId, signed, exp, nbf) ==
    [kind |-> "jwt", signed |-> signed, userId |-> userId, exp |-> exp, nbf |-> nbf]

\* the Authorization header: absent, or a string that carries a token with
\* or without the prefix 'Bearer '
NoHeader == [present |-> FALSE, bearer |-> FALSE, token |-> EmptyToken]
Header(bearer, token) == [present |-> TRUE, bearer |-> bearer, token |-> token]

\* req.header('Authorization')?.replace('Bearer ', '')
TokenOf(header) == IF header.present THEN header.token ELSE Undefined

\* jwt.verify(token, secret) at time at: the name of the error thrown, or
\* "none" when the payload is returned
JwtVerify(token, at) ==
    LET clockTimestamp == at \div 1000 IN
    IF token.kind # "jwt" \/ ~token.signed THEN "JsonWebTokenError"
    ELSE IF token.nbf # Undefined /\ token.nbf.id > clockTimestamp THEN "NotBeforeError"
    ELSE IF token.exp # Undefined /\ clockTimestamp >= token.exp.id THEN "TokenExpiredError"
    ELSE "none"

Denied(message) == [next |-> FALSE, user |-> Undefined, status |-> 401, message |-> message]

\* the guard that calls next() for every token that parses, whatever its
\* signature and claims (jwt.decode in place of jwt.verify)
AuthDecodeOnly(header, at) ==
    LET token == TokenOf(header) IN
    IF token = Undefined \/ token.kind = "empty"
    THEN Denied("No token, authorization denied")
    ELSE IF token.kind # "jwt" THEN Denied("Invalid token")
    ELSE [next |-> TRUE, user |-> [userId |-> token.userId], status |-> 0, message |-> ""]

\* auth(req, res, next) at time at: whether next() is called and with which
\* req.user, or the 401 answered
Auth(header, at) ==
    LET token == TokenOf(header) IN
    IF token = Undefined \/ token.kind = "empty"
    THEN Denied("No token, authorization denied")
    ELSE LET error == JwtVerify(token, at) IN
         IF error = "none"
         THEN [next |-> TRUE, user |-> [userId |-> token.userId], status |-> 0,
               message |-> ""]
         ELSE IF error = "TokenExpiredError" THEN Denied("Token expired")
         ELSE IF error = "JsonWebTokenError" THEN Denied("Invalid token")
         ELSE Denied("Token is not valid")

(***************************************************************************)
(* The requests explored.  A path or body id is drawn from the ids that    *)
(* behave differently: no document (0), every user's first default         *)
(* category, and every user-created category.                              *)
(***************************************************************************)
Customs == {k \in DOMAIN cats : ~cats[k].isDefault}
DefaultsOf(u) == {k \in DOMAIN cats : cats[k].userId = u /\ cats[k].isDefault}
FirstDefaults == {SetMin(DefaultsOf(u)) : u \in {v \in users : DefaultsOf(v) # {}}}
CatIdInputs == {NoDoc} \cup FirstDefaults \cup Customs
TaskIdInputs == 1..MaxTasks
CategoryIdBodies == {Undefined} \cup {Str(k) : k \in CatIdInputs}

\* user-created category documents ever created, after result r
CustomCreated(r) == r.nextCat - 1 - Len(DefaultNames) * Cardinality(users)

\* the part of the state space explored
Explored(r, maxCustom) ==
    /\ r.nextTask <= MaxTasks + 1
    /\ CustomCreated(r) <= maxCustom
    /\ \A k \in DOMAIN r.cats : r.cats[k].taskCount >= -CountFloor

Slots == {"r1", "r2"}
NoRequests ==
    [s \in Slots |->
        [kind |-> "none", actor |-> "none", id |-> NoDoc, categoryId |-> Undefined,
         oldCategoryId |-> Undefined, pc |-> "idle", status |-> 0,
         tasks0 |-> <<>>, cats0 |-> <<>>]]

Commit(r, maxCustom) ==
    /\ Explored(r, maxCustom)
    /\ tasks' = r.tasks
    /\ cats' = r.cats
    /\ nextTask' = r.nextTask
    /\ nextCat' = r.nextCat
    /\ UNCHANGED <<client, accounts, now, users, reqs>>

Register ==
    /\ Cardinality(users) < Len(UserIds)
    /\ LET u == UserIds[Cardinality(users) + 1]
           r == RegisterUser(u)
       IN  /\ users' = users \cup {u}
           /\ tasks' = r.tasks
           /\ cats' = r.cats
           /\ nextTask' = r.nextTask
           /\ nextCat' = r.nextCat
           /\ UNCHANGED <<client, accounts, now, reqs>>

TaskPostReq ==
    \E actor \in users, categoryId \in CategoryIdBodies :
        Commit(TaskPost(actor, categoryId), MaxCustom)

TaskPutReq ==
    \E actor \in users, id \in TaskIdInputs, categoryId \in CategoryIdBodies :
        Commit(TaskPut(actor, id, categoryId), MaxCustom)

TaskDeleteReq ==
    \E actor \in users, id \in TaskIdInputs :
        Commit(TaskDelete(actor, id), MaxCustom)

CatPostReq(names, maxCustom) ==
    \E actor \in users, name \in names :
        Commit(CatPost(actor, name), maxCustom)

CatPutReq(maxCustom) ==
    \E actor \in users, id \in CatIdInputs, name \in NameInputs :
        Commit(CatPut(actor, id, name), maxCustom)

CatDeleteReq(maxCustom) ==
    \E actor \in users, id \in CatIdInputs :
        Commit(CatDelete(actor, id), maxCustom)

(***************************************************************************)
(* The client: AuthProvider (src/contexts/TaskContext.tsx) over the API    *)
(* client (src/services/api.ts).  The auth state is the reducer's state,   *)
(* the storage is AsyncStorage's 'authToken' and 'user' entries.  The app  *)
(* makes one call after the other; logout is followed await by await.      *)
(***************************************************************************)
NoValue == "null"
TokenFor(u) == "token-" \o u

\* initialState
InitialState ==
    [user |-> NoValue, token |-> NoValue, isLoading |-> TRUE,
     isAuthenticated |-> FALSE, error |-> NoValue]

AuthAction(type, payload) == [type |-> type, payload |-> payload]

\* a reducer whose SET_USER stores the user and nothing else
AuthReducerUserOnly(state, action) ==
    CASE action.type = "SET_LOADING" -> [state EXCEPT !.isLoading = action.payload]
      [] action.type = "SET_USER" -> [state EXCEPT !.user = action.payload]
      [] action.type = "SET_TOKEN" -> [state EXCEPT !.token = action.payload]
      [] action.type = "SET_ERROR" -> [state EXCEPT !.error = action.payload]
      [] action.type = "CLEAR_ERROR" -> [state EXCEPT !.error = NoValue]
      [] action.type = "LOGOUT" ->
            [state EXCEPT !.user = NoValue, !.token = NoValue,
                          !.isAuthenticated = FALSE, !.error = NoValue]
      [] OTHER -> state

\* authReducer
AuthReducer(state, action) ==
    CASE action.type = "SET_LOADING" -> [state EXCEPT !.isLoading = action.payload]
      [] action.type = "SET_USER" ->
            [state EXCEPT !.user = action.payload, !.isAuthenticated = TRUE,
                          !.error = NoValue]
      [] action.type = "SET_TOKEN" -> [state EXCEPT !.token = action.payload]
      [] action.type = "SET_AUTHENTICATED" -> [state EXCEPT !.isAuthenticated = action.payload]
      [] action.type = "SET_ERROR" -> [state EXCEPT !.error = action.payload]
      [] action.type = "CLEAR_ERROR" -> [state EXCEPT !.error = NoValue]
      [] action.type = "LOGOUT" ->
            [state EXCEPT !.user = NoValue, !.token = NoValue,
                          !.isAuthenticated = FALSE, !.error = NoValue]
      [] OTHER -> state

EmptyStorage == [authToken |-> NoValue, user |-> NoValue]
NoCall == [kind |-> "none", pc |-> "idle", outcome |-> "none", state0 |-> InitialState]
InitialClient == [state |-> InitialState, storage |-> EmptyStorage, call |-> NoCall]

CallInFlight == client.call.pc \notin {"idle", "done", "rejected"}

\* What a request through the axios instance can come to: a 2xx response
\* whose body has success true, or success false; a 401, on which the
\* response interceptor removes both storage entries and rejects; any other
\* rejection (another status, no network, timeout).
ApiOutcomes == {"success", "refused", "unauthorized", "error"}

\* the storage after the response interceptor has seen the outcome
Intercepted(storage, outcome) ==
    IF outcome = "unauthorized" THEN EmptyStorage ELSE storage

\* login(email, password), as one step: the auth state and the storage
\* after the call, for the outcome of POST /auth/login (u is the user the
\* server names in a success)
ClientLogin(c, outcome, u) ==
    LET s1 == AuthReducer(AuthReducer(c.state, AuthAction("SET_LOADING", TRUE)),
                          AuthAction("CLEAR_ERROR", NoValue))
        st == Intercepted(c.storage, outcome)
    IN  IF outcome = "success"
        THEN [state |-> AuthReducer(
                            AuthReducer(AuthReducer(s1, AuthAction("SET_TOKEN", TokenFor(u))),
                                        AuthAction("SET_USER", u)),
                            AuthAction("SET_LOADING", FALSE)),
              storage |-> [authToken |-> TokenFor(u), user |-> u],
              call |-> [kind |-> "login", pc |-> "done", outcome |-> outcome,
                        state0 |-> c.state]]
        ELSE [state |-> AuthReducer(AuthReducer(s1, AuthAction("SET_ERROR", "Login failed")),
                                    AuthAction("SET_LOADING", FALSE)),
              storage |-> st,
              call |-> [kind |-> "login", pc |-> "rejected", outcome |-> outcome,
                        state0 |-> c.state]]

\* logout with the cleanup inside the try: skipped when the call rejects
LogoutCleanupInTry(outcome) ==
    IF outcome \in {"success", "refused"} THEN "logout:removeToken" ELSE "done"

\* logout: try { await authAPI.logout() } catch { log } finally { ... }:
\* where the call goes on once POST /auth/logout has come to its outcome
LogoutAfterApi(outcome) == "logout:removeToken"

InitClient ==
    /\ client = InitialClient
    /\ users = AllUsers
    /\ tasks = <<>>
    /\ cats = <<>>
    /\ nextTask = 1
    /\ nextCat = 1
    /\ reqs = <<>>
    /\ now = 0
    /\ accounts = <<>>

LoginCall ==
    /\ ~CallInFlight
    /\ \E outcome \in ApiOutcomes, u \in users :
          client' = ClientLogin(client, outcome, u)
    /\ UNCHANGED <<users, tasks, cats, nextTask, nextCat, reqs, now, accounts>>

\* logout() is called
LogoutCall ==
    /\ ~CallInFlight
    /\ client' = [client EXCEPT !.call = [kind |-> "logout", pc |-> "logout:api",
                                          outcome |-> "none", state0 |-> client.state]]
    /\ UNCHANGED <<users, tasks, cats, nextTask, nextCat, reqs, now, accounts>>

\* await authAPI.logout()
LogoutApi ==
    /\ client.call.pc = "logout:api"
    /\ \E outcome \in ApiOutcomes :
          client' = [client EXCEPT !.storage = Intercepted(@, outcome),
                                   !.call.outcome = outcome,
                                   !.call.pc = LogoutAfterApi(outcome)]
    /\ UNCHANGED <<users, tasks, cats, nextTask, nextCat, reqs, now, accounts>>

\* await AsyncStorage.removeItem('authToken'): done, or the storage rejects
\* and with it logout()
LogoutRemoveToken ==
    /\ client.call.pc = "logout:removeToken"
    /\ \/ client' = [client EXCEPT !.storage.authToken = NoValue,
                                   !.call.pc = "logout:removeUser"]
       \/ client' = [client EXCEPT !.call.pc = "rejected"]
    /\ UNCHANGED <<users, tasks, cats, nextTask, nextCat, reqs, now, accounts>>

\* await AsyncStorage.removeItem('user')
LogoutRemoveUser ==
    /\ client.call.pc = "logout:removeUser"
    /\ \/ client' = [client EXCEPT !.storage.user = NoValue,
                                   !.call.pc = "logout:dispatch"]
       \/ client' = [client EXCEPT !.call.pc = "rejected"]
    /\ UNCHANGED <<users, tasks, cats, nextTask, nextCat, reqs, now, accounts>>

\* dispatch({ type: 'LOGOUT' }); logout() is fulfilled
LogoutDispatch ==
    /\ client.call.pc = "logout:dispatch"
    /\ client' = [client EXCEPT !.state = AuthReducer(@, AuthAction("LOGOUT", NoValue)),
                                !.call.pc = "done"]
    /\ UNCHANGED <<users, tasks, cats, nextTask, nextCat, reqs, now, accounts>>

NextClient ==
    \/ LoginCall
    \/ LogoutCall
    \/ LogoutApi
    \/ LogoutRemoveToken
    \/ LogoutRemoveUser
    \/ LogoutDispatch

SpecClient == InitClient /\ [][NextClient]_vars

(***************************************************************************)
(* SpecAuth: AuthProvider with every call followed await by await: the     *)
(* mount-time check, checkAuth, login, register (which calls login),       *)
(* logout and clearError, one call after the other, with any outcome of    *)
(* each API call and each storage call.  Any other API call of the app     *)
(* (tasks, categories) may be answered 401 at any time.                    *)
(***************************************************************************)
Dispatch(state, type, payload) == AuthReducer(state, AuthAction(type, payload))

\* a finally block that does nothing
FinallySkipped(state) == state

\* finally { dispatch({ type: 'SET_LOADING', payload: false }) }
Finally(state) == Dispatch(state, "SET_LOADING", FALSE)

\* a failure path that also logs the user out, as checkAuth's does
LoginFailureLogsOut(state, message) ==
    Finally(Dispatch(Dispatch(state, "LOGOUT", NoValue), "SET_ERROR", message))

\* login: the else branch dispatches SET_ERROR and throws, or the call
\* rejects; catch dispatches SET_ERROR and rethrows; finally
LoginFailure(state, message) == Finally(Dispatch(state, "SET_ERROR", message))

\* register: the same shape, with its own message
RegisterFailure(state, message) == Finally(Dispatch(state, "SET_ERROR", message))

\* dispatch SET_LOADING true, dispatch CLEAR_ERROR: the head of login and
\* of register
CallHead(state) == Dispatch(Dispatch(state, "SET_LOADING", TRUE), "CLEAR_ERROR", NoValue)

\* the call in flight: its kind, where it stands, the user it is made for,
\* and the state and the storage it found
Call(kind, pc, u) ==
    [kind |-> kind, pc |-> pc, outcome |-> "none", as |-> u,
     state0 |-> client.state, storage0 |-> client.storage]

StoredSessions ==
    {EmptyStorage} \cup {[authToken |-> TokenFor(u), user |-> u] : u \in AllUsers}

\* the provider mounts: initializeAuth is in flight, with what an earlier
\* run of the app left in the storage
InitAuth ==
    /\ \E st \in StoredSessions :
          client = [state |-> InitialState, storage |-> st,
                    call |-> [kind |-> "initializeAuth", pc |-> "check:getToken",
                              outcome |-> "none", as |-> NoValue,
                              state0 |-> InitialState, storage0 |-> st]]
    /\ users = AllUsers
    /\ tasks = <<>>
    /\ cats = <<>>
    /\ nextTask = 1
    /\ nextCat = 1
    /\ reqs = <<>>
    /\ now = 0
    /\ accounts = <<>>

ServerUnchanged == UNCHANGED <<users, tasks, cats, nextTask, nextCat, reqs, now, accounts>>

\* checkAuth() is called
AuthCheckCall ==
    /\ ~CallInFlight
    /\ client' = [client EXCEPT !.state = Dispatch(@, "SET_LOADING", TRUE),
                                !.call = Call("checkAuth", "check:getToken", NoValue)]
    /\ ServerUnchanged

\* await AsyncStorage.getItem('authToken')
AuthCheckGetToken ==
    /\ client.call.pc = "check:getToken"
    /\ \/ client' = [client EXCEPT !.call.pc = "check:catch:removeToken"]
       \/ /\ client.storage.authToken = NoValue
          /\ client' = [client EXCEPT !.state = Finally(@), !.call.pc = "done"]
       \/ /\ client.storage.authToken # NoValue
          /\ client' = [client EXCEPT
                           !.state = Dispatch(@, "SET_TOKEN", client.storage.authToken),
                           !.call.pc = "check:getCurrentUser"]
    /\ ServerUnchanged

\* await authAPI.getCurrentUser()
AuthCheckGetCurrentUser ==
    /\ client.call.pc = "check:getCurrentUser"
    /\ \E outcome \in ApiOutcomes, u \in users :
          client' = [client EXCEPT
                        !.storage = Intercepted(@, outcome),
                        !.call.outcome = outcome,
                        !.state = IF outcome = "success"
                                  THEN Finally(Dispatch(@, "SET_USER", u)) ELSE @,
                        !.call.pc = CASE outcome = "success" -> "done"
                                      [] outcome = "refused" -> "check:else:removeToken"
                                      [] OTHER -> "check:catch:removeToken"]
    /\ ServerUnchanged

\* await AsyncStorage.removeItem('authToken'), in the else branch or in
\* catch: done, or the storage rejects (from the else branch into catch,
\* from catch out of the call, through finally)
AuthCheckRemoveToken ==
    /\ client.call.pc \in {"check:else:removeToken", "check:catch:removeToken"}
    /\ \/ client' = [client EXCEPT
                        !.storage.authToken = NoValue,
                        !.call.pc = IF client.call.pc = "check:else:removeToken"
                                    THEN "check:else:removeUser"
                                    ELSE "check:catch:removeUser"]
       \/ /\ client.call.pc = "check:else:removeToken"
          /\ client' = [client EXCEPT !.call.pc = "check:catch:removeToken"]
       \/ /\ client.call.pc = "check:catch:removeToken"
          /\ client' = [client EXCEPT !.state = Finally(@), !.call.pc = "rejected"]
    /\ ServerUnchanged

\* await AsyncStorage.removeItem('user'); dispatch({ type: 'LOGOUT' })
AuthCheckRemoveUser ==
    /\ client.call.pc \in {"check:else:removeUser", "check:catch:removeUser"}
    /\ \/ client' = [client EXCEPT
                        !.storage.user = NoValue,
                        !.state = Finally(Dispatch(@, "LOGOUT", NoValue)),
                        !.call.pc = "done"]
       \/ /\ client.call.pc = "check:else:removeUser"
          /\ client' = [client EXCEPT !.call.pc = "check:catch:removeToken"]
       \/ /\ client.call.pc = "check:catch:removeUser"
          /\ client' = [client EXCEPT !.state = Finally(@), !.call.pc = "rejected"]
    /\ ServerUnchanged

\* login(email, password) is called, with the credentials of u
AuthLoginCall ==
    /\ ~CallInFlight
    /\ \E u \in users :
          client' = [client EXCEPT !.state = CallHead(@),
                                   !.call = Call("login", "login:api", u)]
    /\ ServerUnchanged

\* the state after login has failed with message; inside register, the
\* error goes on through register's catch and finally
AfterLoginFailure(kind, state, message) ==
    IF kind = "register"
    THEN RegisterFailure(LoginFailure(state, message), message)
    ELSE LoginFailure(state, message)

\* await authAPI.login(email, password)
AuthLoginApi ==
    /\ client.call.pc = "login:api"
    /\ \E outcome \in ApiOutcomes :
          client' = [client EXCEPT
                        !.storage = Intercepted(@, outcome),
                        !.call.outcome = outcome,
                        !.state = IF outcome = "success" THEN @
                                  ELSE AfterLoginFailure(client.call.kind, @, "Login failed"),
                        !.call.pc = IF outcome = "success" THEN "login:setToken"
                                    ELSE "rejected"]
    /\ ServerUnchanged

\* await AsyncStorage.setItem('authToken', token): done, or the storage
\* rejects
AuthLoginSetToken ==
    /\ client.call.pc = "login:setToken"
    /\ \/ client' = [client EXCEPT !.storage.authToken = TokenFor(client.call.as),
                                   !.call.pc = "login:setUser"]
       \/ client' = [client EXCEPT
                        !.state = AfterLoginFailure(client.call.kind, @, "Login failed"),
                        !.call.outcome = "storage error",
                        !.call.pc = "rejected"]
    /\ ServerUnchanged

\* await AsyncStorage.setItem('user', JSON.stringify(user)); dispatch
\* SET_TOKEN, SET_USER; finally (and register's finally)
AuthLoginSetUser ==
    /\ client.call.pc = "login:setUser"
    /\ \/ client' = [client EXCEPT
                        !.storage.user = client.call.as,
                        !.state = LET s2 == Dispatch(Dispatch(@, "SET_TOKEN",
                                                              TokenFor(client.call.as)),
                                                     "SET_USER", client.call.as)
                                  IN  IF client.call.kind = "register"
                                      THEN Finally(Finally(s2)) ELSE Finally(s2),
                        !.call.pc = "done"]
       \/ client' = [client EXCEPT
                        !.state = AfterLoginFailure(client.call.kind, @, "Login failed"),
                        !.call.outcome = "storage error",
                        !.call.pc = "rejected"]
    /\ ServerUnchanged

\* register(email, username, password) is called, for the new user u
AuthRegisterCall ==
    /\ ~CallInFlight
    /\ \E u \in users :
          client' = [client EXCEPT !.state = CallHead(@),
                                   !.call = Call("register", "register:api", u)]
    /\ ServerUnchanged

\* await authAPI.register(...): on success login(email, password) is
\* called and awaited
AuthRegisterApi ==
    /\ client.call.pc = "register:api"
    /\ \E outcome \in ApiOutcomes :
          client' = [client EXCEPT
                        !.storage = Intercepted(@, outcome),
                        !.call.outcome = outcome,
                        !.state = IF outcome = "success" THEN CallHead(@)
                                  ELSE RegisterFailure(@, "Registration failed"),
                        !.call.pc = IF outcome = "success" THEN "login:api"
                                    ELSE "rejected"]
    /\ ServerUnchanged

\* clearError()
ClearErrorCall ==
    /\ client.state.error # NoValue
    /\ client' = [client EXCEPT !.state = Dispatch(@, "CLEAR_ERROR", NoValue)]
    /\ ServerUnchanged

\* a request of tasksAPI or categoriesAPI is answered 401: the response
\* interceptor removes both entries; the providers' handlers dispatch
\* nothing to the auth state
ApiUnauthorized ==
    /\ client.storage # EmptyStorage
    /\ client' = [client EXCEPT !.storage = Intercepted(@, "unauthorized")]
    /\ ServerUnchanged

\* an awaited call of the call in flight settles
AuthSettle ==
    \/ AuthCheckGetToken
    \/ AuthCheckGetCurrentUser
    \/ AuthCheckRemoveToken
    \/ AuthCheckRemoveUser
    \/ AuthLoginApi
    \/ AuthLoginSetToken
    \/ AuthLoginSetUser
    \/ AuthRegisterApi
    \/ LogoutApi
    \/ LogoutRemoveToken
    \/ LogoutRemoveUser
    \/ LogoutDispatch

NextAuth ==
    \/ AuthCheckCall
    \/ AuthLoginCall
    \/ AuthRegisterCall
    \/ LogoutCall
    \/ ClearErrorCall
    \/ ApiUnauthorized
    \/ AuthSettle

SpecAuth == InitAuth /\ [][NextAuth]_vars

\* every awaited API and storage call settles (axios has a timeout of 10 s)
SpecAuthLive == SpecAuth /\ WF_vars(AuthSettle)

Init ==
    /\ client = InitialClient
    /\ users = {}
    /\ tasks = <<>>
    /\ cats = <<>>
    /\ nextTask = 1
    /\ nextCat = 1
    /\ reqs = <<>>
    /\ now = 0
    /\ accounts = <<>>

\* The task and category ledgers, one request at a time.
Next ==
    \/ Register
    \/ TaskPostReq
    \/ TaskPutReq
    \/ TaskDeleteReq
    \/ CatPostReq(LedgerNames, MaxCustom)
    \/ CatDeleteReq(MaxCustom)

Spec == Init /\ [][Next]_vars

\* The category ledger alone: names under create, rename and delete.
NextNames ==
    \/ Register
    \/ CatPostReq(NameInputs, MaxNamed)
    \/ CatPutReq(MaxNamed)
    \/ CatDeleteReq(MaxNamed)

SpecNames == Init /\ [][NextNames]_vars

(***************************************************************************)
(* SpecOrder: the order and the activity of categories: create, reorder    *)
(* and toggle, with tasks referencing the categories.                      *)
(***************************************************************************)
\* sortOrder in the body of a reorder request: absent, a fraction, a
\* negative integer, and integers that pass the validation
ReorderBodies == {Undefined, Fraction, Num(-1), Num(0), Num(3), Num(TwoTo53)}

\* the bodies sent in SpecOrder
ReorderSent == {Fraction, Num(-1), Num(3), Num(TwoTo53)}

CatReorderReq ==
    \E actor \in users, id \in CatIdInputs, sortOrder \in ReorderSent :
        Commit(CatReorderBody(actor, id, sortOrder), MaxCustom)

CatToggleReq ==
    \E actor \in users, id \in CatIdInputs :
        Commit(CatToggle(actor, id), MaxCustom)

\* both users have registered and each has created one task in its first
\* default category
InitOrder ==
    /\ client = InitialClient
    /\ users = AllUsers
    /\ tasks = [i \in 1..Len(UserIds) |->
                  [userId |-> UserIds[i],
                   categoryId |-> Oid((i - 1) * Len(DefaultNames) + 1),
                   completed |-> FALSE, dueDate |-> Null]]
    /\ cats = LET seeded == CreateDefaults(CreateDefaults(<<>>, UserIds[1], 1), UserIds[2],
                                           Len(DefaultNames) + 1)
              IN  IncTaskCount(IncTaskCount(seeded, 1, 1), Len(DefaultNames) + 1, 1)
    /\ nextTask = Len(UserIds) + 1
    /\ nextCat = 2 * Len(DefaultNames) + 1
    /\ reqs = <<>>
    /\ now = 0
    /\ accounts = <<>>

NextOrder ==
    \/ CatPostReq(LedgerNames, MaxCustom)
    \/ CatReorderReq
    \/ CatToggleReq

SpecOrder == InitOrder /\ [][NextOrder]_vars

(***************************************************************************)
(* SpecTasks: the attributes of tasks (due date, completion) under the     *)
(* clock, with every request passing the access guard.  Both users have    *)
(* registered; the clock advances by half days.                            *)
(***************************************************************************)
HalfDay == DayMs \div 2
ClockTimes == {k * HalfDay : k \in 0..MaxTicks}
DueInputs == {Undefined, DateVal(HalfDay), DateVal(3 * HalfDay)}
ClaimInputs == {Undefined, Num(HalfDay \div 1000), Num((3 * HalfDay) \div 1000)}

TokenInputs ==
    {EmptyToken, MalformedToken}
    \cup {Jwt(u, sg, exp, nbf) :
            u \in AllUsers, sg \in BOOLEAN, exp \in ClaimInputs,
            nbf \in {Undefined, Num((2 * HalfDay) \div 1000)}}
Headers == {NoHeader} \cup {Header(b, tk) : b \in BOOLEAN, tk \in TokenInputs}

InitTasks ==
    /\ client = InitialClient
    /\ users = AllUsers
    /\ tasks = <<>>
    /\ cats = CreateDefaults(CreateDefaults(<<>>, UserIds[1], 1), UserIds[2],
                             Len(DefaultNames) + 1)
    /\ nextTask = 1
    /\ nextCat = 2 * Len(DefaultNames) + 1
    /\ reqs = <<>>
    /\ now = 0
    /\ accounts = <<>>

\* time passes
Tick ==
    /\ now < MaxTicks * HalfDay
    /\ now' = now + HalfDay
    /\ UNCHANGED <<client, users, tasks, cats, nextTask, nextCat, reqs, accounts>>

\* router.use(auth), then POST /api/tasks: the handler runs as the token's
\* user, or not at all
GuardedTaskPost(header, dueDate) ==
    LET g == Auth(header, now) IN
    IF g.next THEN TaskPostDue(g.user.userId, Undefined, dueDate)
    ELSE Reply(g.status, g.message)

\* router.use(auth), then PATCH /api/tasks/:id/complete
GuardedTaskToggle(header, id) ==
    LET g == Auth(header, now) IN
    IF g.next THEN TaskToggle(g.user.userId, id) ELSE Reply(g.status, g.message)

GuardedTaskPostReq ==
    \E header \in Headers, dueDate \in DueInputs :
        Commit(GuardedTaskPost(header, dueDate), MaxCustom)

GuardedTaskToggleReq ==
    \E header \in Headers, id \in TaskIdInputs :
        Commit(GuardedTaskToggle(header, id), MaxCustom)

NextTasks ==
    \/ Tick
    \/ GuardedTaskPostReq
    \/ GuardedTaskToggleReq

SpecTasks == InitTasks /\ [][NextTasks]_vars

(***************************************************************************)
(* SpecAccounts: the users collection (models/User.js) under registration. *)
(* A stored user is its email and username as the schema stores them.  The *)
(* registration handler itself is composed of the model's own look-ups,    *)
(* save() and Category.createDefaults.                                     *)
(***************************************************************************)
EmailInputs ==
    { <<"a", "@", "x", ".", "t">>, <<"A", "@", "x", ".", "t">>,
      <<"p", "@", "x", ".", "t">> }
UsernameInputs == { <<"s", "a", "l">>, <<"S", "a", "l">>, <<"p", "a", "t">> }

\* userSchema setters on save: email lowercase: true; username as given
\* (trim leaves both unchanged, neither has surrounding space)
UserDoc(email, username) == [email |-> ToLower(email), username |-> username]

\* User.findByEmail(email): findOne({ email: email.toLowerCase() })
FindByEmail(a, email) ==
    LET hits == {k \in DOMAIN a : a[k].email = ToLower(email)} IN
    IF hits = {} THEN NoDoc ELSE SetMin(hits)

\* User.findByUsername(username): findOne({ username: username.toLowerCase() })
FindByUsername(a, username) ==
    LET hits == {k \in DOMAIN a : a[k].username = ToLower(username)} IN
    IF hits = {} THEN NoDoc ELSE SetMin(hits)

\* the unique indexes on email and on username (unique: true), which
\* compare the stored strings exactly
UserIndexRejects(a, doc) ==
    \E k \in DOMAIN a : a[k].email = doc.email \/ a[k].username = doc.username

RegisterReply(a, c, nc, status) == [accounts |-> a, cats |-> c, nextCat |-> nc, status |-> status]

\* register(email, username, password): refused when a look-up finds the
\* email or the username, or when save() hits a unique index; otherwise the
\* user is stored and the default categories are created for it
RegisterAccount(email, username) ==
    LET doc == UserDoc(email, username)
        userId == UserIds[Len(accounts) + 1]
    IN  IF \/ FindByEmail(accounts, email) # NoDoc
           \/ FindByUsername(accounts, username) # NoDoc
           \/ UserIndexRejects(accounts, doc)
        THEN RegisterReply(accounts, cats, nextCat, 400)
        ELSE RegisterReply(Append(accounts, doc),
                           CreateDefaults(cats, userId, nextCat),
                           nextCat + Len(DefaultNames), 201)

InitAccounts ==
    /\ client = InitialClient
    /\ users = {}
    /\ tasks = <<>>
    /\ cats = <<>>
    /\ nextTask = 1
    /\ nextCat = 1
    /\ reqs = <<>>
    /\ now = 0
    /\ accounts = <<>>

RegisterReq ==
    /\ Len(accounts) < Len(UserIds)
    /\ \E email \in EmailInputs, username \in UsernameInputs :
           LET r == RegisterAccount(email, username) IN
           /\ accounts' = r.accounts
           /\ cats' = r.cats
           /\ nextCat' = r.nextCat
           /\ users' = {UserIds[k] : k \in 1..Len(r.accounts)}
           /\ UNCHANGED <<client, tasks, nextTask, reqs, now>>

NextAccounts ==
    \/ RegisterReq
    \/ TaskPostReq
    \/ CatPostReq(LedgerNames, MaxCustom)
    \/ CatDeleteReq(MaxCustom)

SpecAccounts == InitAccounts /\ [][NextAccounts]_vars

(***************************************************************************)
(* SpecList: GET /api/tasks.  Here a task also carries its title, its      *)
(* description (empty when the body had none), its priority and its        *)
(* createdAt.                                                              *)
(***************************************************************************)
TitleInputs == { <<"a">>, <<"A", "+">>, <<"x">> }
DescriptionInputs == { <<>>, <<"x", "a">> }
PriorityInputs == {"low", "high"}
SearchInputs == { <<>>, <<"a">>, <<"a", "+">>, <<"+">>, <<"x">> }

\* POST /api/tasks with title, description, priority and dueDate in the
\* body; createdAt is the time of the save (timestamps: true)
TaskPostFull(actor, title, description, priority, dueDate) ==
    LET r == TaskPostDue(actor, Undefined, dueDate) IN
    IF r.status # 201 THEN r
    ELSE [r EXCEPT !.tasks =
             [k \in DOMAIN r.tasks |->
                 IF k = r.data
                 THEN r.tasks[k] @@ [title |-> title, description |-> description,
                                     priority |-> priority, createdAt |-> DateVal(now)]
                 ELSE r.tasks[k]]]

\* the query string of GET /api/tasks; "undefined" marks an absent
\* completed or priority, <<>> an absent search
ListQuery(completed, priority, categoryId, dueDate, search) ==
    [completed |-> completed, priority |-> priority, categoryId |-> categoryId,
     dueDate |-> dueDate, search |-> search]

\* { $regex: search, $options: 'i' } on the string s: the pattern matches
\* somewhere in s
RegExpFinds(p, s) ==
    \E i \in 1..Len(s) : \E j \in i..Len(s) : RegExpMatch(p, SubSeq(s, i, j))

\* the string s contains the string q, ignoring letter case
Contains(s, q) ==
    \E i \in 1..(Len(s) - Len(q) + 1) :
        SubSeq(ToLower(s), i, i + Len(q) - 1) = ToLower(q)

\* the documents of t that Task.find(query) selects for the query the
\* handler builds from q
ListMatches(t, actor, q) ==
    {k \in DOMAIN t :
        /\ t[k].userId = actor
        /\ q.completed # "undefined" => t[k].completed = (q.completed = "true")
        /\ q.priority \in {"low", "medium", "high"} => t[k].priority = q.priority
        /\ Truthy(q.categoryId) => t[k].categoryId = Oid(q.categoryId.id)
        /\ q.dueDate.t = "Date" => t[k].dueDate = q.dueDate
        /\ q.search # <<>> =>
               \/ RegExpFinds(q.search, t[k].title)
               \/ RegExpFinds(q.search, t[k].description)}

\* .sort({ createdAt: -1 }): the ids of M, newest first (documents with the
\* same createdAt by id)
NewestFirst(t, M) ==
    [i \in 1..Cardinality(M) |->
        CHOOSE k \in M :
            Cardinality({j \in M : \/ t[j].createdAt.id > t[k].createdAt.id
                                    \/ (t[j].createdAt.id = t[k].createdAt.id /\ j > k)})
                = i - 1]

\* GET /api/tasks: the status and the ids of the tasks returned, in order
TaskList(actor, q) ==
    IF q.search # <<>> /\ RegExpThrows(q.search)
    THEN [status |-> 500, data |-> <<>>]
    ELSE [status |-> 200, data |-> NewestFirst(tasks, ListMatches(tasks, actor, q))]

TaskPostFullReq ==
    \E actor \in users, title \in TitleInputs, description \in DescriptionInputs,
       priority \in PriorityInputs, dueDate \in {Undefined, DateVal(HalfDay)} :
        LET r == TaskPostFull(actor, title, description, priority, dueDate) IN
        /\ r.status = 201
        /\ Explored(r, MaxCustom)
        /\ tasks' = r.tasks
        /\ nextTask' = r.nextTask
        /\ now' = now + 1
        /\ UNCHANGED <<client, users, cats, nextCat, reqs, accounts>>

TaskToggleReq ==
    \E actor \in users, id \in TaskIdInputs :
        Commit(TaskToggle(actor, id), MaxCustom)

NextList ==
    \/ TaskPostFullReq
    \/ TaskToggleReq

SpecList == InitTasks /\ [][NextList]_vars

(***************************************************************************)
(* SpecLogin: authentication against the users collection.  Two users are  *)
(* stored; a user document carries the password hash, isActive and         *)
(* lastLogin.  The login handler is composed of the model's findByEmail,   *)
(* comparePassword and updateLastLogin.                                    *)
(***************************************************************************)
PasswordInputs == {"secret1", "secret2"}

\* bcrypt.hash(password, salt): one-way, never the plaintext
Hash(password) == <<"bcrypt", password>>

\* userSchema.methods.comparePassword: bcrypt.compare(candidate, this.password)
ComparePassword(doc, candidatePassword) == doc.password = Hash(candidatePassword)

\* a user document as saved at registration: the setters of userSchema, the
\* defaults of isActive and lastLogin, and the password hashed by pre('save')
StoredUser(email, username, password) ==
    [email |-> ToLower(email), username |-> username, password |-> Hash(password),
     isActive |-> TRUE, lastLogin |-> Null]

\* userSchema.methods.updateLastLogin at time at, then save(): pre('save')
\* leaves the hash alone, since password is not modified
UpdateLastLogin(doc, at) == [doc EXCEPT !.lastLogin = DateVal(at)]

LoginReply(a, status, token) == [accounts |-> a, status |-> status, token |-> token]

\* login that never compares the password
LoginAnyPassword(email, password) ==
    LET k == FindByEmail(accounts, email) IN
    IF k = NoDoc THEN LoginReply(accounts, 400, Undefined)
    ELSE LoginReply([accounts EXCEPT ![k] = UpdateLastLogin(accounts[k], now)], 200,
                    Jwt(UserIds[k], TRUE, Num((now + DayMs) \div 1000), Undefined))

\* authenticate(email, password): InvalidCredentials unless a user with
\* that email exists, is active and the password matches its hash; then
\* lastLogin is updated and a signed token for the user is issued
Login(email, password) ==
    LET k == FindByEmail(accounts, email) IN
    IF k = NoDoc THEN LoginReply(accounts, 400, Undefined)
    ELSE IF ~accounts[k].isActive THEN LoginReply(accounts, 400, Undefined)
    ELSE IF ~ComparePassword(accounts[k], password)
    THEN LoginReply(accounts, 400, Undefined)
    ELSE LoginReply([accounts EXCEPT ![k] = UpdateLastLogin(accounts[k], now)], 200,
                    Jwt(UserIds[k], TRUE, Num((now + DayMs) \div 1000), Undefined))

InitLogin ==
    /\ client = InitialClient
    /\ users = AllUsers
    /\ tasks = <<>>
    /\ cats = <<>>
    /\ nextTask = 1
    /\ nextCat = 1
    /\ reqs = <<>>
    /\ now = 0
    /\ accounts = << StoredUser(<<"a", "@", "x", ".", "t">>, <<"s", "a", "l">>, "secret1"),
                     StoredUser(<<"p", "@", "x", ".", "t">>, <<"p", "a", "t">>, "secret2") >>

LoginReq ==
    \E email \in EmailInputs, password \in PasswordInputs :
        /\ accounts' = Login(email, password).accounts
        /\ UNCHANGED <<client, users, tasks, cats, nextTask, nextCat, reqs, now>>

\* isActive of a user is set or cleared
SetActive ==
    \E k \in DOMAIN accounts :
        /\ accounts' = [accounts EXCEPT ![k].isActive = ~accounts[k].isActive]
        /\ UNCHANGED <<client, users, tasks, cats, nextTask, nextCat, reqs, now>>

NextLogin ==
    \/ Tick
    \/ LoginReq
    \/ SetActive

SpecLogin == InitLogin /\ [][NextLogin]_vars

(***************************************************************************)
(* SpecConc: POST, PUT and DELETE /tasks as the sequences of awaited       *)
(* storage operations they are.  Two requests of user A are in flight;     *)
(* every storage operation is atomic and the two requests interleave at    *)
(* the awaits.  A request stops at an await when the operation rejects     *)
(* (the handler's catch answers 500) or the process stops.                 *)
(***************************************************************************)
MaxConcTasks == 2   \* SpecConc: tasks stored when the requests arrive

ConcUser == UserIds[1]
ConcCats == {1, 2}                      \* A's categories Work and Personal
ConcTaskIds == 1..MaxConcTasks
\* The bodies carry a categoryId: these are the requests that reference a category.
ConcBodies == {Str(k) : k \in ConcCats}

\* The collections of a registered user A after POST /tasks requests of A.
ConcStores ==
    { [tasks |-> t,
       cats |-> [k \in 1..Len(DefaultNames) |->
                    [CreateDefaults(<<>>, ConcUser, 1)[k] EXCEPT
                        !.taskCount = CountTasks(t, k)]]] :
        t \in UNION { [1..n -> { [userId |-> ConcUser, categoryId |-> c, completed |-> FALSE, dueDate |-> Null] :
                                   c \in {Null} \cup {Oid(k) : k \in ConcCats} }] :
                      n \in 0..MaxConcTasks } }

InitConc ==
    /\ client = InitialClient
    /\ users = {ConcUser}
    /\ \E s \in ConcStores : tasks = s.tasks /\ cats = s.cats
    /\ nextTask = Cardinality(DOMAIN tasks) + 1
    /\ nextCat = Len(DefaultNames) + 1
    /\ reqs = NoRequests
    /\ now = 0
    /\ accounts = <<>>

InFlight(s) == reqs[s].pc \notin {"idle", "done", "stopped"}

Request(kind, id, categoryId, pc) ==
    [kind |-> kind, actor |-> ConcUser, id |-> id, categoryId |-> categoryId,
     oldCategoryId |-> Undefined, pc |-> pc, status |-> 0,
     tasks0 |-> tasks, cats0 |-> cats]

Goto(s, pc) == reqs' = [reqs EXCEPT ![s].pc = pc]
Respond(s, status) == reqs' = [reqs EXCEPT ![s].pc = "done", ![s].status = status]

\* A request arrives (validation passes, nothing awaited yet).
Arrive(s) ==
    /\ reqs[s].pc = "idle"
    /\ \/ \E c \in ConcBodies :
            reqs' = [reqs EXCEPT ![s] = Request("POST", NoDoc, c, "post:findCategory")]
       \/ \E id \in ConcTaskIds, c \in ConcBodies :
            reqs' = [reqs EXCEPT ![s] = Request("PUT", id, c, "put:findTask")]
       \/ \E id \in ConcTaskIds :
            reqs' = [reqs EXCEPT ![s] = Request("DELETE", id, Undefined, "delete:findTask")]
    /\ UNCHANGED <<client, accounts, now, users, tasks, cats, nextTask, nextCat>>

\* POST: await Category.findOne({ _id: categoryId, userId })
PostFindCategory(s) ==
    /\ reqs[s].pc = "post:findCategory"
    /\ IF Truthy(reqs[s].categoryId)
          /\ FindCategory(cats, reqs[s].categoryId.id, reqs[s].actor) = NoDoc
       THEN Respond(s, 400)
       ELSE Goto(s, "post:save")
    /\ UNCHANGED <<client, accounts, now, users, tasks, cats, nextTask, nextCat>>

\* POST: await task.save()
PostSave(s) ==
    /\ reqs[s].pc = "post:save"
    /\ LET r == reqs[s]
           doc == [userId |-> r.actor,
                   categoryId |-> IF Truthy(r.categoryId) THEN Oid(r.categoryId.id) ELSE Null,
                   completed |-> FALSE, dueDate |-> Null]
       IN  /\ tasks' = [k \in DOMAIN tasks \cup {nextTask} |->
                           IF k = nextTask THEN doc ELSE tasks[k]]
           /\ nextTask' = nextTask + 1
           /\ IF Truthy(r.categoryId) THEN Goto(s, "post:inc") ELSE Respond(s, 201)
    /\ UNCHANGED <<client, accounts, now, users, cats, nextCat>>

\* POST: await Category.findByIdAndUpdate(categoryId, { $inc: { taskCount: 1 } })
PostInc(s) ==
    /\ reqs[s].pc = "post:inc"
    /\ cats' = IncTaskCount(cats, reqs[s].categoryId.id, 1)
    /\ Respond(s, 201)
    /\ UNCHANGED <<client, accounts, now, users, tasks, nextTask, nextCat>>

PutDecDue(old, new) == Truthy(old) /\ StrictNotEqual(old, new)
PutIncDue(old, new) == Truthy(new) /\ StrictNotEqual(new, old)

\* PUT: await Task.findOne({ _id: req.params.id, userId })
PutFindTask(s) ==
    /\ reqs[s].pc = "put:findTask"
    /\ LET r == reqs[s] IN
       IF FindTask(tasks, r.id, r.actor) = NoDoc
       THEN Respond(s, 404)
       ELSE LET old == tasks[r.id].categoryId IN
            reqs' = [reqs EXCEPT ![s].oldCategoryId = old,
                                 ![s].pc = IF PutIncDue(old, r.categoryId)
                                           THEN "put:findCategory" ELSE "put:update"]
    /\ UNCHANGED <<client, accounts, now, users, tasks, cats, nextTask, nextCat>>

\* PUT: await Category.findOne({ _id: categoryId, userId })
PutFindCategory(s) ==
    /\ reqs[s].pc = "put:findCategory"
    /\ IF FindCategory(cats, reqs[s].categoryId.id, reqs[s].actor) = NoDoc
       THEN Respond(s, 400)
       ELSE Goto(s, "put:update")
    /\ UNCHANGED <<client, accounts, now, users, tasks, cats, nextTask, nextCat>>

\* PUT: await Task.findByIdAndUpdate(req.params.id, updateData)
PutUpdate(s) ==
    /\ reqs[s].pc = "put:update"
    /\ LET r == reqs[s] IN
       /\ tasks' = IF r.id \in DOMAIN tasks /\ r.categoryId # Undefined
                   THEN [tasks EXCEPT ![r.id].categoryId = Oid(r.categoryId.id)]
                   ELSE tasks
       /\ IF PutDecDue(r.oldCategoryId, r.categoryId) THEN Goto(s, "put:dec")
          ELSE IF PutIncDue(r.oldCategoryId, r.categoryId) THEN Goto(s, "put:inc")
          ELSE Respond(s, 200)
    /\ UNCHANGED <<client, accounts, now, users, cats, nextTask, nextCat>>

\* PUT: await Category.findByIdAndUpdate(oldCategoryId, { $inc: { taskCount: -1 } })
PutDec(s) ==
    /\ reqs[s].pc = "put:dec"
    /\ cats' = IncTaskCount(cats, reqs[s].oldCategoryId.id, -1)
    /\ IF PutIncDue(reqs[s].oldCategoryId, reqs[s].categoryId)
       THEN Goto(s, "put:inc") ELSE Respond(s, 200)
    /\ UNCHANGED <<client, accounts, now, users, tasks, nextTask, nextCat>>

\* PUT: await Category.findByIdAndUpdate(categoryId, { $inc: { taskCount: 1 } })
PutInc(s) ==
    /\ reqs[s].pc = "put:inc"
    /\ cats' = IncTaskCount(cats, reqs[s].categoryId.id, 1)
    /\ Respond(s, 200)
    /\ UNCHANGED <<client, accounts, now, users, tasks, nextTask, nextCat>>

\* DELETE: await Task.findOne({ _id: req.params.id, userId })
DeleteFindTask(s) ==
    /\ reqs[s].pc = "delete:findTask"
    /\ LET r == reqs[s] IN
       IF FindTask(tasks, r.id, r.actor) = NoDoc
       THEN Respond(s, 404)
       ELSE reqs' = [reqs EXCEPT ![s].oldCategoryId = tasks[r.id].categoryId,
                                 ![s].pc = "delete:remove"]
    /\ UNCHANGED <<client, accounts, now, users, tasks, cats, nextTask, nextCat>>

\* DELETE: await task.remove()
DeleteRemove(s) ==
    /\ reqs[s].pc = "delete:remove"
    /\ tasks' = [k \in DOMAIN tasks \ {reqs[s].id} |-> tasks[k]]
    /\ IF Truthy(reqs[s].oldCategoryId) THEN Goto(s, "delete:dec") ELSE Respond(s, 200)
    /\ UNCHANGED <<client, accounts, now, users, cats, nextTask, nextCat>>

\* DELETE: await Category.findByIdAndUpdate(categoryId, { $inc: { taskCount: -1 } })
DeleteDec(s) ==
    /\ reqs[s].pc = "delete:dec"
    /\ cats' = IncTaskCount(cats, reqs[s].oldCategoryId.id, -1)
    /\ Respond(s, 200)
    /\ UNCHANGED <<client, accounts, now, users, tasks, nextTask, nextCat>>

\* The awaited operation rejects (catch: 500) or the process stops: the
\* request does nothing more, what it has written stays written.
Stop(s) ==
    /\ InFlight(s)
    /\ reqs' = [reqs EXCEPT ![s].pc = "stopped", ![s].status = 500]
    /\ UNCHANGED <<client, accounts, now, users, tasks, cats, nextTask, nextCat>>

NextConc ==
    \E s \in Slots :
        \/ Arrive(s)
        \/ PostFindCategory(s)
        \/ PostSave(s)
        \/ PostInc(s)
        \/ PutFindTask(s)
        \/ PutFindCategory(s)
        \/ PutUpdate(s)
        \/ PutDec(s)
        \/ PutInc(s)
        \/ DeleteFindTask(s)
        \/ DeleteRemove(s)
        \/ DeleteDec(s)
        \/ Stop(s)

SpecConc == InitConc /\ [][NextConc]_vars

(***************************************************************************)
(* SpecRace: POST /tasks and DELETE /categories/:id of user A in flight    *)
(* together, each as the sequence of its awaited storage operations.       *)
(* A owns the six defaults and one category of their own, which no task    *)
(* references when the requests arrive.                                    *)
(***************************************************************************)
RaceCat == Len(DefaultNames) + 1

RaceStores ==
    { [tasks |-> t,
       cats |-> [k \in 1..RaceCat |->
                    IF k = RaceCat
                    THEN [name |-> <<"x">>, userId |-> ConcUser, isDefault |-> FALSE,
                          isActive |-> TRUE, taskCount |-> 0, sortOrder |-> RaceCat]
                    ELSE [CreateDefaults(<<>>, ConcUser, 1)[k] EXCEPT
                             !.taskCount = CountTasks(t, k)]]] :
        t \in { <<>>,
                <<[userId |-> ConcUser, categoryId |-> Null,
                   completed |-> FALSE, dueDate |-> Null]>>,
                <<[userId |-> ConcUser, categoryId |-> Oid(1),
                   completed |-> FALSE, dueDate |-> Null]>> } }

InitRace ==
    /\ client = InitialClient
    /\ users = {ConcUser}
    /\ \E s \in RaceStores : tasks = s.tasks /\ cats = s.cats
    /\ nextTask = Cardinality(DOMAIN tasks) + 1
    /\ nextCat = RaceCat + 1
    /\ reqs = NoRequests
    /\ now = 0
    /\ accounts = <<>>

ArriveRace(s) ==
    /\ reqs[s].pc = "idle"
    /\ \/ \E c \in {Str(1), Str(RaceCat)} :
            reqs' = [reqs EXCEPT ![s] = Request("POST", NoDoc, c, "post:findCategory")]
       \/ \E id \in {1, RaceCat} :
            reqs' = [reqs EXCEPT ![s] =
                        Request("DELETE category", id, Undefined, "catdelete:findCategory")]
    /\ UNCHANGED <<client, accounts, now, users, tasks, cats, nextTask, nextCat>>

\* DELETE category: await Category.findOne({ _id: req.params.id, userId })
CatDeleteFindCategory(s) ==
    /\ reqs[s].pc = "catdelete:findCategory"
    /\ IF FindCategory(cats, reqs[s].id, reqs[s].actor) = NoDoc THEN Respond(s, 404)
       ELSE IF cats[reqs[s].id].isDefault THEN Respond(s, 400)
       ELSE Goto(s, "catdelete:count")
    /\ UNCHANGED <<client, accounts, now, users, tasks, cats, nextTask, nextCat>>

\* DELETE category: await Task.countDocuments({ categoryId: req.params.id })
CatDeleteCount(s) ==
    /\ reqs[s].pc = "catdelete:count"
    /\ IF CountTasks(tasks, reqs[s].id) > 0 THEN Respond(s, 400)
       ELSE Goto(s, "catdelete:preRemove")
    /\ UNCHANGED <<client, accounts, now, users, tasks, cats, nextTask, nextCat>>

\* DELETE category: category.remove() runs pre('remove'), which awaits
\* Task.updateMany({ categoryId: this._id }, { $unset: { categoryId: 1 } })
CatDeletePreRemove(s) ==
    /\ reqs[s].pc = "catdelete:preRemove"
    /\ tasks' = PreRemove(tasks, reqs[s].id)
    /\ Goto(s, "catdelete:remove")
    /\ UNCHANGED <<client, accounts, now, users, cats, nextTask, nextCat>>

\* DELETE category: category.remove() then deletes the document
CatDeleteRemove(s) ==
    /\ reqs[s].pc = "catdelete:remove"
    /\ cats' = [k \in DOMAIN cats \ {reqs[s].id} |-> cats[k]]
    /\ Respond(s, 200)
    /\ UNCHANGED <<client, accounts, now, users, tasks, nextTask, nextCat>>

NextRace ==
    \E s \in Slots :
        \/ ArriveRace(s)
        \/ PostFindCategory(s)
        \/ PostSave(s)
        \/ PostInc(s)
        \/ CatDeleteFindCategory(s)
        \/ CatDeleteCount(s)
        \/ CatDeletePreRemove(s)
        \/ CatDeleteRemove(s)

SpecRace == InitRace /\ [][NextRace]_vars

(***************************************************************************)
(* SpecDup: two POST /categories of user A in flight together, each as the *)
(* sequence of its awaited storage operations.                             *)
(***************************************************************************)
DupNames == { <<"x">>, <<"X">>, <<"w", "o", "r", "k">> }

InitDup ==
    /\ client = InitialClient
    /\ users = {ConcUser}
    /\ tasks = <<>>
    /\ cats = CreateDefaults(<<>>, ConcUser, 1)
    /\ nextTask = 1
    /\ nextCat = Len(DefaultNames) + 1
    /\ reqs = NoRequests
    /\ now = 0
    /\ accounts = <<>>

ArriveDup(s) ==
    /\ reqs[s].pc = "idle"
    /\ \E name \in DupNames :
          reqs' = [reqs EXCEPT ![s] =
                      [name |-> name, sortOrder |-> 0]
                          @@ Request("POST category", NoDoc, Undefined, "catpost:findByName")]
    /\ UNCHANGED <<client, accounts, now, users, tasks, cats, nextTask, nextCat>>

\* POST category: await Category.findByNameAndUser(name, req.user.userId)
CatPostFindByName(s) ==
    /\ reqs[s].pc = "catpost:findByName"
    /\ IF FindByNameAndUser(cats, reqs[s].name, reqs[s].actor) # NoDoc THEN Respond(s, 400)
       ELSE Goto(s, "catpost:findLast")
    /\ UNCHANGED <<client, accounts, now, users, tasks, cats, nextTask, nextCat>>

\* POST category: await Category.findOne({ userId }).sort({ sortOrder: -1 })
CatPostFindLast(s) ==
    /\ reqs[s].pc = "catpost:findLast"
    /\ LET own == {k \in DOMAIN cats : cats[k].userId = reqs[s].actor} IN
       reqs' = [reqs EXCEPT ![s].pc = "catpost:preSave",
                            ![s].sortOrder =
                                IF own = {} THEN 0
                                ELSE PlusOne(SetMax({cats[k].sortOrder : k \in own}))]
    /\ UNCHANGED <<client, accounts, now, users, tasks, cats, nextTask, nextCat>>

\* POST category: category.save() runs pre('save'), which awaits
\* findByNameAndUser(this.name, this.userId)
CatPostPreSave(s) ==
    /\ reqs[s].pc = "catpost:preSave"
    /\ IF PreSaveRejects(cats, NoDoc, reqs[s].name, reqs[s].actor) THEN Respond(s, 500)
       ELSE Goto(s, "catpost:insert")
    /\ UNCHANGED <<client, accounts, now, users, tasks, cats, nextTask, nextCat>>

\* POST category: category.save() then inserts the document, under the
\* unique index { userId: 1, name: 1 }
CatPostInsert(s) ==
    /\ reqs[s].pc = "catpost:insert"
    /\ LET r == reqs[s]
           doc == [name |-> r.name, userId |-> r.actor, isDefault |-> FALSE,
                   isActive |-> TRUE, taskCount |-> 0, sortOrder |-> r.sortOrder]
       IN  IF UniqueIndexRejects(cats, nextCat, r.name, r.actor)
           THEN Respond(s, 500) /\ UNCHANGED <<client, cats, nextCat>>
           ELSE /\ cats' = [k \in DOMAIN cats \cup {nextCat} |->
                               IF k = nextCat THEN doc ELSE cats[k]]
                /\ nextCat' = nextCat + 1
                /\ Respond(s, 201)
    /\ UNCHANGED <<client, accounts, now, users, tasks, nextTask>>

NextDup ==
    \E s \in Slots :
        \/ ArriveDup(s)
        \/ CatPostFindByName(s)
        \/ CatPostFindLast(s)
        \/ CatPostPreSave(s)
        \/ CatPostInsert(s)

SpecDup == InitDup /\ [][NextDup]_vars

(***************************************************************************)
(* SpecStats: GET /tasks/stats/overview of user A as the count queries its *)
(* Promise.all awaits, answered by the database one at a time in any       *)
(* order, while task create, delete and toggle requests of A are served.   *)
(* (The count by priority, a field not modelled, is left out.)             *)
(***************************************************************************)
StatsSlot == "r1"
StatsCounts == {"total", "completed", "pending", "overdue"}

InitStats ==
    /\ client = InitialClient
    /\ users = {ConcUser}
    /\ tasks = <<>>
    /\ cats = CreateDefaults(<<>>, ConcUser, 1)
    /\ nextTask = 1
    /\ nextCat = Len(DefaultNames) + 1
    /\ reqs = NoRequests
    /\ now = DayMs
    /\ accounts = <<>>

\* the request arrives: the five queries are built (new Date() is read) and
\* sent
StatsArrive ==
    /\ reqs[StatsSlot].pc = "idle"
    /\ reqs' = [reqs EXCEPT ![StatsSlot] =
                    [left |-> StatsCounts, at |-> now,
                     data |-> [q \in StatsCounts |-> 0]]
                        @@ Request("GET stats", NoDoc, Undefined, "stats:count")]
    /\ UNCHANGED <<client, accounts, now, users, tasks, cats, nextTask, nextCat>>

\* the query named q of the overview, for userId at time at
StatsQuery(q, userId, at) ==
    CASE q = "total" -> Query({userId}, BOOLEAN, Undefined)
      [] q = "completed" -> Query({userId}, {TRUE}, Undefined)
      [] q = "pending" -> Query({userId}, {FALSE}, Undefined)
      [] q = "overdue" -> Query({userId}, {FALSE}, DateVal(at))

\* one Task.countDocuments of the Promise.all is answered
StatsCount ==
    /\ reqs[StatsSlot].pc = "stats:count"
    /\ \E q \in reqs[StatsSlot].left :
          LET r == reqs[StatsSlot] IN
          reqs' = [reqs EXCEPT
                      ![StatsSlot].left = @ \ {q},
                      ![StatsSlot].data[q] =
                          CountDocuments(tasks, StatsQuery(q, r.actor, r.at))]
    /\ UNCHANGED <<client, accounts, now, users, tasks, cats, nextTask, nextCat>>

\* every count is in: res.json
StatsRespond ==
    /\ reqs[StatsSlot].pc = "stats:count"
    /\ reqs[StatsSlot].left = {}
    /\ Respond(StatsSlot, 200)
    /\ UNCHANGED <<client, accounts, now, users, tasks, cats, nextTask, nextCat>>

TaskPostDueReq ==
    \E actor \in users, dueDate \in {Undefined, DateVal(HalfDay)} :
        Commit(TaskPostDue(actor, Undefined, dueDate), MaxCustom)

NextStats ==
    \/ StatsArrive
    \/ StatsCount
    \/ StatsRespond
    \/ TaskPostDueReq
    \/ TaskDeleteReq
    \/ TaskToggleReq

SpecStats == InitStats /\ [][NextStats]_vars

(***************************************************************************)
(* Every authenticated request a registered user can send in the current   *)
(* state, and what its handler answers.  The properties below quantify     *)
(* over them: a property of a route holds when it holds of the handler's   *)
(* result in every reachable state.                                        *)
(***************************************************************************)
TaskIdRoutes == {"GET /tasks/:id", "PUT /tasks/:id", "PATCH /tasks/:id/complete",
                 "DELETE /tasks/:id"}
CatIdRoutes == {"GET /categories/:id", "PUT /categories/:id", "DELETE /categories/:id",
                "PATCH /categories/:id/toggle", "PATCH /categories/:id/reorder"}

AnyTaskId == 0..(MaxTasks + 1)
AnyCatId == 0..nextCat
AnyCategoryIdBody == {Undefined} \cup {Str(k) : k \in AnyCatId}
SortOrderInputs == {0, 3}

Req(route, actor, id, categoryId, name, sortOrder) ==
    [route |-> route, actor |-> actor, id |-> id, categoryId |-> categoryId,
     name |-> name, sortOrder |-> sortOrder]

RequestsOf(actor) ==
    {Req("POST /tasks", actor, NoDoc, c, <<>>, 0) : c \in AnyCategoryIdBody}
    \cup {Req("PUT /tasks/:id", actor, x[1], x[2], <<>>, 0) :
            x \in AnyTaskId \X AnyCategoryIdBody}
    \cup {Req(x[1], actor, x[2], Undefined, <<>>, 0) :
            x \in (TaskIdRoutes \ {"PUT /tasks/:id"}) \X AnyTaskId}
    \cup {Req("POST /categories", actor, NoDoc, Undefined, n, 0) : n \in NameInputs}
    \cup {Req("PUT /categories/:id", actor, x[1], Undefined, x[2], 0) :
            x \in AnyCatId \X NameInputs}
    \cup {Req("PATCH /categories/:id/reorder", actor, x[1], Undefined, <<>>, x[2]) :
            x \in AnyCatId \X SortOrderInputs}
    \cup {Req(x[1], actor, x[2], Undefined, <<>>, 0) :
            x \in {"GET /categories/:id", "DELETE /categories/:id",
                   "PATCH /categories/:id/toggle"} \X AnyCatId}

Requests == UNION {RequestsOf(actor) : actor \in users}

Handle(q) ==
    CASE q.route = "POST /tasks" -> TaskPost(q.actor, q.categoryId)
      [] q.route = "PUT /tasks/:id" -> TaskPut(q.actor, q.id, q.categoryId)
      [] q.route = "DELETE /tasks/:id" -> TaskDelete(q.actor, q.id)
      [] q.route = "GET /tasks/:id" -> TaskGet(q.actor, q.id)
      [] q.route = "PATCH /tasks/:id/complete" -> TaskToggle(q.actor, q.id)
      [] q.route = "POST /categories" -> CatPost(q.actor, q.name)
      [] q.route = "PUT /categories/:id" -> CatPut(q.actor, q.id, q.name)
      [] q.route = "DELETE /categories/:id" -> CatDelete(q.actor, q.id)
      [] q.route = "GET /categories/:id" -> CatGet(q.actor, q.id)
      [] q.route = "PATCH /categories/:id/toggle" -> CatToggle(q.actor, q.id)
      [] q.route = "PATCH /categories/:id/reorder" -> CatReorder(q.actor, q.id, q.sortOrder)

\* the request leaves both collections as they are
Unchanged(r) == r.tasks = tasks /\ r.cats = cats

(***************************************************************************)
(* GET /api/categories/stats/overview.                                     *)
(***************************************************************************)
TopLimit == 5

\* Category.find({ userId, taskCount: { $gt: 0 } }).sort({ taskCount: -1 })
\* .limit(5): the ids, largest taskCount first (equal counts by id)
TopCategories(c, userId) ==
    LET M == {k \in DOMAIN c : c[k].userId = userId /\ c[k].taskCount > 0}
        sorted == [i \in 1..Cardinality(M) |->
                      CHOOSE k \in M :
                          Cardinality({j \in M : \/ c[j].taskCount > c[k].taskCount
                                                  \/ (c[j].taskCount = c[k].taskCount /\ j < k)})
                              = i - 1]
    IN  SubSeq(sorted, 1, IF Len(sorted) < TopLimit THEN Len(sorted) ELSE TopLimit)

CatStatsOverview(c, userId) ==
    [total |-> Cardinality({k \in DOMAIN c : c[k].userId = userId}),
     active |-> Cardinality({k \in DOMAIN c : c[k].userId = userId /\ c[k].isActive}),
     default |-> Cardinality({k \in DOMAIN c : c[k].userId = userId /\ c[k].isDefault}),
     withTasks |-> Cardinality({k \in DOMAIN c : c[k].userId = userId /\ c[k].taskCount > 0}),
     topCategories |-> TopCategories(c, userId)]

(***************************************************************************)
(* PUT /api/tasks/:id with its whole body.  A body is a record of the      *)
(* fields the client sent; a field it did not send is not in its domain.   *)
(***************************************************************************)
UpdatablePaths == {"title", "description", "priority", "categoryId", "dueDate"}

\* the update that hands the whole body to findByIdAndUpdate
UpdateDataWholeBody(body) == body

\* const updateData = {}; if (title !== undefined) updateData.title = title;
\* ... for title, description, priority, categoryId and dueDate
UpdateData(body) == [f \in DOMAIN body \cap UpdatablePaths |-> body[f]]

\* Task.findByIdAndUpdate(id, updateData) on the stored document doc: the
\* paths of the schema that the update names are set (strict: a name that
\* is no path of the schema is dropped); categoryId is set by TaskPut
Updated(doc, updateData) ==
    [f \in DOMAIN doc |->
        IF f \in DOMAIN updateData /\ f # "categoryId" THEN updateData[f] ELSE doc[f]]

TaskPutBody(actor, id, body) ==
    LET r == TaskPut(actor, id,
                     IF "categoryId" \in DOMAIN body THEN body.categoryId ELSE Undefined)
    IN  IF r.status # 200 THEN r
        ELSE [r EXCEPT !.tasks[id] = Updated(@, UpdateData(body))]

(***************************************************************************)
(* SpecTaskClient: the app's TaskProvider (contexts/TaskContext.tsx) in    *)
(* front of the task and category routes.  Here client holds the           *)
(* provider's state (tasks, categories, isLoading, error) and the calls of *)
(* its operations that have not returned; a call is sent, then answered    *)
(* (by the server, or by a failure), then its continuation runs.  Two      *)
(* calls can be open at once: the operation the user started (the screen   *)
(* awaits it before the next) and the fetchTasks the screen starts by      *)
(* itself in useFocusEffect and onRefresh; their continuations run in      *)
(* either order.  A task is held by the client as its id and completed, a  *)
(* category as its id and name; the categories it holds are the ones it    *)
(* created (fetchCategories is not called here).  error is never cleared   *)
(* here (clearError is not called), so error = null tells that no call has *)
(* failed.                                                                 *)
(***************************************************************************)
TaskInitialState ==
    [tasks |-> <<>>, categories |-> <<>>, isLoading |-> FALSE, error |-> NoValue]

TaskAction(type, payload) == [type |-> type, payload |-> payload]

\* list.map(x => x.id === item.id ? item : x)
MapById(list, item) ==
    [i \in 1..Len(list) |-> IF list[i].id = item.id THEN item ELSE list[i]]

\* list.filter(x => x.id !== id)
FilterById(list, id) == SelectSeq(list, LAMBDA x : x.id # id)

\* taskReducer
TaskReducer(state, action) ==
    CASE action.type = "SET_LOADING" -> [state EXCEPT !.isLoading = action.payload]
      [] action.type = "SET_TASKS" -> [state EXCEPT !.tasks = action.payload]
      [] action.type = "SET_CATEGORIES" -> [state EXCEPT !.categories = action.payload]
      [] action.type = "ADD_TASK" ->
            [state EXCEPT !.tasks = <<action.payload>> \o state.tasks]
      [] action.type = "UPDATE_TASK" ->
            [state EXCEPT !.tasks = MapById(state.tasks, action.payload)]
      [] action.type = "DELETE_TASK" ->
            [state EXCEPT !.tasks = FilterById(state.tasks, action.payload)]
      [] action.type = "ADD_CATEGORY" ->
            [state EXCEPT !.categories = Append(state.categories, action.payload)]
      [] action.type = "UPDATE_CATEGORY" ->
            [state EXCEPT !.categories = MapById(state.categories, action.payload)]
      [] action.type = "DELETE_CATEGORY" ->
            [state EXCEPT !.categories = FilterById(state.categories, action.payload)]
      [] action.type = "SET_ERROR" -> [state EXCEPT !.error = action.payload]
      [] action.type = "CLEAR_ERROR" -> [state EXCEPT !.error = NoValue]
      [] OTHER -> state

\* the operations of the provider, and the two that set isLoading
TaskOps == {"createTask", "updateTask", "deleteTask", "toggleTaskComplete"}
CategoryOps == {"createCategory", "updateCategory", "deleteCategory"}
FetchOps == {"fetchTasks"}
LoadingOps == {"fetchTasks", "createTask"}

\* the message each operation falls back to
FailedTo(kind) ==
    CASE kind = "fetchTasks" -> "Failed to fetch tasks"
      [] kind = "createTask" -> "Failed to create task"
      [] kind = "updateTask" -> "Failed to update task"
      [] kind = "deleteTask" -> "Failed to delete task"
      [] kind = "toggleTaskComplete" -> "Failed to toggle task completion"
      [] kind = "createCategory" -> "Failed to create category"
      [] kind = "updateCategory" -> "Failed to update category"
      [] kind = "deleteCategory" -> "Failed to delete category"

\* What an awaited API call gives: it throws (no response, or a status
\* outside 2xx), or it returns the body { success, data, error }.  data is
\* a list (the one document as a list of one); hasData tells a present
\* data from an absent one, error is NoValue when the body has none.
ApiThrown ==
    [thrown |-> TRUE, success |-> FALSE, hasData |-> FALSE, data |-> <<>>,
     error |-> NoValue]
ApiBody(success, hasData, data, error) ==
    [thrown |-> FALSE, success |-> success, hasData |-> hasData, data |-> data,
     error |-> error]

\* a || b on an error text
OrElse(a, b) == IF a \in {NoValue, ""} THEN b ELSE a

\* the JSON of a task and of a category document
TaskJson(t, k) == [id |-> k, completed |-> t[k].completed]
CategoryJson(c, k) == [id |-> k, name |-> c[k].name]

\* the action the operation dispatches when its call returns the body
\* response: the success branch, else SET_ERROR
Returned(kind, id, response) ==
    LET failed == TaskAction("SET_ERROR", OrElse(response.error, FailedTo(kind)))
        ok == response.success /\ response.hasData
    IN  CASE kind = "fetchTasks" ->
                IF ok THEN TaskAction("SET_TASKS", response.data) ELSE failed
          [] kind = "createTask" ->
                IF ok THEN TaskAction("ADD_TASK", response.data[1]) ELSE failed
          [] kind \in {"updateTask", "toggleTaskComplete"} ->
                IF ok THEN TaskAction("UPDATE_TASK", response.data[1]) ELSE failed
          [] kind = "deleteTask" ->
                IF response.success THEN TaskAction("DELETE_TASK", id) ELSE failed
          [] kind = "createCategory" ->
                IF ok THEN TaskAction("ADD_CATEGORY", response.data[1]) ELSE failed
          [] kind = "updateCategory" ->
                IF ok THEN TaskAction("UPDATE_CATEGORY", response.data[1]) ELSE failed
          [] kind = "deleteCategory" ->
                IF response.success THEN TaskAction("DELETE_CATEGORY", id) ELSE failed

\* the rest of the operation with a catch that also removes the task of the
\* call from the list
ContinuedRemovesOnError(state, kind, id, response) ==
    LET s1 == IF response.thrown
              THEN TaskReducer(TaskReducer(state, TaskAction("SET_ERROR", FailedTo(kind))),
                               TaskAction("DELETE_TASK", id))
              ELSE TaskReducer(state, Returned(kind, id, response))
    IN  IF kind \in LoadingOps
        THEN TaskReducer(s1, TaskAction("SET_LOADING", FALSE))
        ELSE s1

\* the provider's state after the rest of the operation has run: the try
\* branch or the catch, then the finally of fetchTasks and createTask
Continued(state, kind, id, response) ==
    LET s1 == IF response.thrown
              THEN TaskReducer(state, TaskAction("SET_ERROR", FailedTo(kind)))
              ELSE TaskReducer(state, Returned(kind, id, response))
    IN  IF kind \in LoadingOps
        THEN TaskReducer(s1, TaskAction("SET_LOADING", FALSE))
        ELSE s1

NoTaskCall ==
    [kind |-> "none", id |-> NoDoc, name |-> <<>>, pc |-> "idle",
     response |-> ApiThrown]

InitialTaskClient ==
    [state |-> TaskInitialState, calls |-> [s \in Slots |-> NoTaskCall]]

\* names the app sends for a category
ClientNames == { <<"x">> }

\* the title, description and priority the app sends for a task
ClientTitle == <<"a">>
ClientPriority == "low"

\* GET /api/tasks without a query
NoQuery == ListQuery("undefined", "undefined", Undefined, Undefined, <<>>)

\* the server's handling of the request of a call
Handled(call) ==
    CASE call.kind = "fetchTasks" ->
            Result(tasks, cats, nextTask, nextCat, TaskList(ConcUser, NoQuery).status,
                   Msg("", 0), NoDoc)
      [] call.kind = "createTask" ->
            TaskPostFull(ConcUser, ClientTitle, <<>>, ClientPriority, Undefined)
      [] call.kind = "updateTask" -> TaskPut(ConcUser, call.id, Undefined)
      [] call.kind = "deleteTask" -> TaskDelete(ConcUser, call.id)
      [] call.kind = "toggleTaskComplete" -> TaskToggle(ConcUser, call.id)
      [] call.kind = "createCategory" -> CatPost(ConcUser, call.name)
      [] call.kind = "updateCategory" -> CatPut(ConcUser, call.id, call.name)
      [] call.kind = "deleteCategory" -> CatDelete(ConcUser, call.id)

\* what the call gets for the result r of the handler: axios throws on a
\* status outside 2xx, else the body with the documents as they are after r
Answer(call, r) ==
    IF r.status \notin 200..299 THEN ApiThrown
    ELSE CASE call.kind = "fetchTasks" ->
                 LET ids == TaskList(ConcUser, NoQuery).data
                 IN  ApiBody(TRUE, TRUE, [i \in 1..Len(ids) |-> TaskJson(tasks, ids[i])],
                             NoValue)
           [] call.kind \in {"createTask", "updateTask", "toggleTaskComplete"} ->
                 ApiBody(TRUE, TRUE, <<TaskJson(r.tasks, r.data)>>, NoValue)
           [] call.kind \in {"createCategory", "updateCategory"} ->
                 ApiBody(TRUE, TRUE, <<CategoryJson(r.cats, r.data)>>, NoValue)
           [] call.kind \in {"deleteTask", "deleteCategory"} ->
                 ApiBody(TRUE, FALSE, <<>>, NoValue)

ListIds(list) == {list[i].id : i \in 1..Len(list)}

\* the bodies with success = false, and a thrown call
FailedAnswers ==
    {ApiThrown} \cup {ApiBody(FALSE, FALSE, <<>>, e) : e \in {NoValue, "Request refused"}}

\* the slot of the operation the user started and the slot of the screen's
\* own fetchTasks
UserSlot == "r1"
ScreenSlot == "r2"
OpsOf(s) ==
    IF s = ScreenSlot THEN {"fetchTasks"} ELSE TaskOps \cup CategoryOps \cup FetchOps


InitTaskClient ==
    /\ client = InitialTaskClient
    /\ users = {ConcUser}
    /\ tasks = <<>>
    /\ cats = CreateDefaults(<<>>, ConcUser, 1)
    /\ nextTask = 1
    /\ nextCat = Len(DefaultNames) + 1
    /\ reqs = <<>>
    /\ now = 0
    /\ accounts = <<>>

\* an operation of the provider is called, up to its first await
TcCall(s) ==
    /\ client.calls[s].pc = "idle"
    /\ \E kind \in OpsOf(s) :
       \E id \in IF kind \in {"updateTask", "deleteTask", "toggleTaskComplete"}
                 THEN ListIds(client.state.tasks)
                 ELSE IF kind \in {"updateCategory", "deleteCategory"}
                 THEN ListIds(client.state.categories)
                 ELSE {NoDoc} :
       \E name \in IF kind \in {"createCategory", "updateCategory"}
                   THEN ClientNames ELSE {<<>>} :
          client' =
              [state |-> IF kind \in LoadingOps
                         THEN TaskReducer(client.state, TaskAction("SET_LOADING", TRUE))
                         ELSE client.state,
               calls |-> [client.calls EXCEPT ![s] =
                             [kind |-> kind, id |-> id, name |-> name, pc |-> "sent",
                              response |-> ApiThrown]]]
    /\ UNCHANGED <<users, tasks, cats, nextTask, nextCat, reqs, now, accounts>>

\* the server handles the request and answers
TcServe(s) ==
    /\ client.calls[s].pc = "sent"
    /\ LET call == client.calls[s]
           r == Handled(call)
       IN  /\ Explored(r, MaxCustom)
           /\ tasks' = r.tasks
           /\ cats' = r.cats
           /\ nextTask' = r.nextTask
           /\ nextCat' = r.nextCat
           /\ now' = IF call.kind = "createTask" /\ r.status = 201 THEN now + 1 ELSE now
           /\ client' = [client EXCEPT !.calls[s].pc = "answered",
                                       !.calls[s].response = Answer(call, r)]
    /\ UNCHANGED <<users, reqs, accounts>>

\* the request fails on its way, or is answered with success = false
TcFail(s) ==
    /\ client.calls[s].pc = "sent"
    /\ \E response \in FailedAnswers :
          client' = [client EXCEPT !.calls[s].pc = "answered",
                                   !.calls[s].response = response]
    /\ UNCHANGED <<users, tasks, cats, nextTask, nextCat, reqs, now, accounts>>

\* the awaited call settles and the rest of the operation runs
TcContinue(s) ==
    /\ client.calls[s].pc = "answered"
    /\ LET call == client.calls[s] IN
       client' = [state |-> Continued(client.state, call.kind, call.id, call.response),
                  calls |-> [client.calls EXCEPT ![s] = NoTaskCall]]
    /\ UNCHANGED <<users, tasks, cats, nextTask, nextCat, reqs, now, accounts>>

NextTaskClient ==
    \E s \in Slots : TcCall(s) \/ TcServe(s) \/ TcFail(s) \/ TcContinue(s)

SpecTaskClient == InitTaskClient /\ [][NextTaskClient]_vars

(***************************************************************************)
(* SpecMock: the in-memory mock server (backend/server-mock.js).  Its      *)
(* arrays are kept in tasks, cats (categories) and accounts (users), its   *)
(* counter nextId in nextTask.  An id is written as the number whose       *)
(* decimal string it is.  A task is held as id, userId and completed, a    *)
(* category and a user as id and the field the handler tests.              *)
(***************************************************************************)
MaxMockId == 6      \* SpecMock: the last id generateId gives

\* initializeMockData: three categories, one task and the user '1'
MockCategories == [i \in 1..3 |-> [id |-> i, name |-> DefaultNames[i], userId |-> 1]]
MockTasks == << [id |-> 4, userId |-> 1, completed |-> FALSE] >>
MockUsers == << [id |-> 1, email |-> "demo@example.com"] >>

\* bodies of PUT /api/tasks/:id: any JSON object over the fields of a task
MockIds == 1..MaxMockId
MockPutBodies ==
    {<<>>} \cup [{"completed"} -> BOOLEAN] \cup [{"id"} -> MockIds]
    \cup [{"userId"} -> {1, 2}] \cup [{"id", "userId"} -> {1, 2}]

\* { ...doc, ...updates } on the fields kept here
Spread(doc, updates) ==
    [f \in DOMAIN doc |-> IF f \in DOMAIN updates THEN updates[f] ELSE doc[f]]

\* tasks.findIndex(t => t.id === id): the first index, 0 for -1
FindIndex(list, id) ==
    IF \E i \in 1..Len(list) : list[i].id = id
    THEN CHOOSE i \in 1..Len(list) :
            list[i].id = id /\ \A j \in 1..(i - 1) : list[j].id # id
    ELSE 0

\* list.splice(i, 1)
Splice(list, i) == SubSeq(list, 1, i - 1) \o SubSeq(list, i + 1, Len(list))

InitMock ==
    /\ client = InitialClient
    /\ users = {}
    /\ tasks = MockTasks
    /\ cats = MockCategories
    /\ nextTask = 5
    /\ nextCat = 1
    /\ reqs = <<>>
    /\ now = 0
    /\ accounts = MockUsers

\* POST /api/auth/register; allFields tells whether email, username and
\* password are all in the body
MockRegister ==
    \E email \in {"demo@example.com", "new@example.com"}, allFields \in BOOLEAN :
        /\ nextTask <= MaxMockId
        /\ IF allFields /\ ~\E i \in 1..Len(accounts) : accounts[i].email = email
           THEN /\ accounts' = Append(accounts, [id |-> nextTask, email |-> email])
                /\ nextTask' = nextTask + 1
           ELSE UNCHANGED <<accounts, nextTask>>
        /\ UNCHANGED <<client, users, tasks, cats, nextCat, reqs, now>>

\* POST /api/tasks; hasTitle tells whether the body has a title
MockTaskPost ==
    \E hasTitle \in BOOLEAN :
        /\ nextTask <= MaxMockId
        /\ IF hasTitle
           THEN /\ tasks' = <<[id |-> nextTask, userId |-> 1, completed |-> FALSE]>> \o tasks
                /\ nextTask' = nextTask + 1
           ELSE UNCHANGED <<tasks, nextTask>>
        /\ UNCHANGED <<client, users, cats, nextCat, reqs, now, accounts>>

\* PUT /api/tasks/:id
MockTaskPut ==
    \E id \in MockIds, updates \in MockPutBodies :
        LET taskIndex == FindIndex(tasks, id) IN
        /\ IF taskIndex = 0 THEN UNCHANGED tasks
           ELSE tasks' = [tasks EXCEPT ![taskIndex] = Spread(tasks[taskIndex], updates)]
        /\ UNCHANGED <<client, users, cats, nextTask, nextCat, reqs, now, accounts>>

\* DELETE /api/tasks/:id
MockTaskDelete ==
    \E id \in MockIds :
        LET taskIndex == FindIndex(tasks, id) IN
        /\ IF taskIndex = 0 THEN UNCHANGED tasks
           ELSE tasks' = Splice(tasks, taskIndex)
        /\ UNCHANGED <<client, users, cats, nextTask, nextCat, reqs, now, accounts>>

\* PATCH /api/tasks/:id/complete
MockTaskToggle ==
    \E id \in MockIds :
        LET taskIndex == FindIndex(tasks, id) IN
        /\ IF taskIndex = 0 THEN UNCHANGED tasks
           ELSE tasks' = [tasks EXCEPT ![taskIndex].completed = ~@]
        /\ UNCHANGED <<client, users, cats, nextTask, nextCat, reqs, now, accounts>>

\* POST /api/categories; nameAndColor tells whether the body has both
MockCategoryPost ==
    \E name \in LedgerNames, nameAndColor \in BOOLEAN :
        /\ nextTask <= MaxMockId
        /\ IF nameAndColor
           THEN /\ cats' = Append(cats, [id |-> nextTask, name |-> name, userId |-> 1])
                /\ nextTask' = nextTask + 1
           ELSE UNCHANGED <<cats, nextTask>>
        /\ UNCHANGED <<client, users, tasks, nextCat, reqs, now, accounts>>

NextMock ==
    \/ MockRegister
    \/ MockTaskPost
    \/ MockTaskPut
    \/ MockTaskDelete
    \/ MockTaskToggle
    \/ MockCategoryPost

SpecMock == InitMock /\ [][NextMock]_vars

(***************************************************************************)
(* SpecShutdown: the start script's graceful shutdown (the second file in  *)
(* backend/server-mock.js).  Here reqs holds the process: whether the HTTP *)
(* server listens, its open connections, the callbacks waiting for its     *)
(* 'close' event, whether that event is due, the database close calls      *)
(* whose callback has not run, the 10-second timers set, the triggers      *)
(* received, the exit code once the process has exited, and the lines      *)
(* written to the console.  server.close(callback) stops listening and     *)
(* calls back on 'close', which is emitted once no connection is open      *)
(* (again for a close() on a server that is already closed); a keep-alive  *)
(* connection may stay open for ever.  A timer fires at some moment after  *)
(* it was set.                                                             *)
(***************************************************************************)
MaxTriggers == 3        \* SpecShutdown: shutdown triggers received
MaxConnections == 2     \* SpecShutdown: HTTP connections open at once

Signals == {"SIGTERM", "SIGINT", "UNCAUGHT_EXCEPTION", "UNHANDLED_REJECTION"}

LogServerClosed == "HTTP server closed."
LogDbClosed == "MongoDB connection closed."
LogForced == "Could not close connections in time, forcefully shutting down"

Process ==
    [listening |-> TRUE, connections |-> 0, closeCallbacks |-> 0, closeDue |-> FALSE,
     dbOpen |-> TRUE, dbClosing |-> 0, timers |-> 0, triggers |-> 0,
     exited |-> FALSE, code |-> 0, log |-> <<>>]

\* gracefulShutdown that sets no timer
GracefulShutdownNoTimer(p, signal) ==
    [p EXCEPT !.listening = FALSE,
              !.closeCallbacks = @ + 1,
              !.closeDue = @ \/ p.connections = 0,
              !.triggers = @ + 1,
              !.log = Append(@, signal \o " received. Starting graceful shutdown...")]

\* gracefulShutdown(signal): server.close(callback) and setTimeout(..., 10000)
GracefulShutdown(p, signal) ==
    [p EXCEPT !.listening = FALSE,
              !.closeCallbacks = @ + 1,
              !.closeDue = @ \/ p.connections = 0,
              !.timers = @ + 1,
              !.triggers = @ + 1,
              !.log = Append(@, signal \o " received. Starting graceful shutdown...")]

\* process.exit(code)
Exit(p, code) == [p EXCEPT !.exited = TRUE, !.code = code]

InitShutdown ==
    /\ client = InitialClient
    /\ users = {}
    /\ tasks = <<>>
    /\ cats = <<>>
    /\ nextTask = 1
    /\ nextCat = 1
    /\ reqs = Process
    /\ now = 0
    /\ accounts = <<>>

Rest == <<users, tasks, cats, nextTask, nextCat, now, accounts, client>>

\* a client connects to the listening server
ConnectionOpens ==
    /\ ~reqs.exited /\ reqs.listening /\ reqs.connections < MaxConnections
    /\ reqs' = [reqs EXCEPT !.connections = @ + 1]
    /\ UNCHANGED Rest

\* a connection ends; the last one of a server that no longer listens makes
\* 'close' due
ConnectionEnds ==
    /\ ~reqs.exited /\ reqs.connections > 0
    /\ reqs' = [reqs EXCEPT !.connections = @ - 1,
                            !.closeDue = @ \/ (~reqs.listening /\ reqs.connections = 1)]
    /\ UNCHANGED Rest

\* process.on('SIGTERM' | 'SIGINT' | 'uncaughtException' | 'unhandledRejection')
Trigger ==
    /\ ~reqs.exited /\ reqs.triggers < MaxTriggers
    /\ \E signal \in Signals : reqs' = GracefulShutdown(reqs, signal)
    /\ UNCHANGED Rest

\* 'close' is emitted: every waiting callback of server.close logs and calls
\* mongoose.connection.close(false, callback)
ServerClosed ==
    /\ ~reqs.exited /\ reqs.closeDue /\ reqs.connections = 0
    /\ reqs' = [reqs EXCEPT !.closeDue = FALSE,
                            !.closeCallbacks = 0,
                            !.dbClosing = @ + reqs.closeCallbacks,
                            !.log = IF reqs.closeCallbacks > 0
                                    THEN Append(@, LogServerClosed) ELSE @]
    /\ UNCHANGED Rest

\* 'close' is emitted and the first callback's mongoose.connection.close
\* throws (a mongoose that takes no callback): the exception is uncaught and
\* its handler calls gracefulShutdown; the other callbacks stay registered
ServerClosedThrows ==
    /\ ~reqs.exited /\ reqs.closeDue /\ reqs.connections = 0
    /\ reqs.closeCallbacks > 0 /\ reqs.triggers < MaxTriggers
    /\ reqs' = GracefulShutdown(
                   [reqs EXCEPT !.closeDue = FALSE,
                                !.closeCallbacks = @ - 1,
                                !.log = Append(@, LogServerClosed)],
                   "UNCAUGHT_EXCEPTION")
    /\ UNCHANGED Rest

\* the database connection has closed and the callback of a close call runs
DbClosed ==
    /\ ~reqs.exited /\ reqs.dbClosing > 0
    /\ reqs' = Exit([reqs EXCEPT !.dbOpen = FALSE, !.dbClosing = @ - 1,
                                 !.log = Append(@, LogDbClosed)], 0)
    /\ UNCHANGED Rest

\* a timer of gracefulShutdown fires
ForceExit ==
    /\ ~reqs.exited /\ reqs.timers > 0
    /\ reqs' = Exit([reqs EXCEPT !.timers = @ - 1, !.log = Append(@, LogForced)], 1)
    /\ UNCHANGED Rest

NextShutdown ==
    \/ ConnectionOpens
    \/ ConnectionEnds
    \/ Trigger
    \/ ServerClosed
    \/ ServerClosedThrows
    \/ DbClosed
    \/ ForceExit

\* a timer that was set fires (the event loop runs); nothing else is assumed
\* to happen: connections may stay open and the database may never answer
SpecShutdown == InitShutdown /\ [][NextShutdown]_vars /\ WF_vars(ForceExit)

(***************************************************************************)
(* Properties.                                                             *)
(***************************************************************************)

\* C1: after any sequence of completed POST /tasks, PUT /tasks/:id and
\* DELETE /tasks/:id requests, every category's taskCount equals the number
\* of tasks whose categoryId is that category.
C1_CountEqualsReferences ==
    \A c \in DOMAIN cats : cats[c].taskCount = CountTasks(tasks, c)

\* C2: in every state reachable by task create, update and delete requests,
\* every category's taskCount is >= 0.
C2_CountNeverNegative ==
    \A c \in DOMAIN cats : cats[c].taskCount >= 0

(***************************************************************************)
(* Ownership.                                                              *)
(***************************************************************************)
\* the documents of collection d that belong to someone other than actor
OthersRows(d, actor) ==
    [k \in {j \in DOMAIN d : d[j].userId # actor} |-> d[k]]

ForeignTask(q) == q.id \in DOMAIN tasks /\ tasks[q.id].userId # q.actor
ForeignCategory(id, actor) == id \in DOMAIN cats /\ cats[id].userId # actor

\* C5: no request authenticated as A creates, changes or deletes a task or
\* category of another user B, and none changes the taskCount of a category
\* of B; a request that names B's task or category in the path is answered
\* 404, and one that names B's category as categoryId in the body (POST
\* /tasks, or PUT on a task of A) is answered 400.
C5_OwnershipScoped ==
    \A q \in Requests :
        LET r == Handle(q) IN
        /\ OthersRows(r.tasks, q.actor) = OthersRows(tasks, q.actor)
        /\ OthersRows(r.cats, q.actor) = OthersRows(cats, q.actor)
        /\ q.route \in TaskIdRoutes /\ ForeignTask(q) => r.status = 404
        /\ q.route \in CatIdRoutes /\ ForeignCategory(q.id, q.actor) => r.status = 404
        /\ ( /\ q.route \in {"POST /tasks", "PUT /tasks/:id"}
             /\ q.route = "PUT /tasks/:id" => FindTask(tasks, q.id, q.actor) # NoDoc
             /\ Truthy(q.categoryId) /\ ForeignCategory(q.categoryId.id, q.actor) )
           => r.status = 400 /\ Unchanged(r)

\* Both users hold a task in a category of their own, so every cross-user
\* request has a target: A's DELETE of B's task is answered 404.
C5_Witness ==
    /\ users = AllUsers
    /\ \E a, b \in DOMAIN tasks :
        /\ tasks[a].userId = "A" /\ Truthy(tasks[a].categoryId)
        /\ tasks[b].userId = "B" /\ Truthy(tasks[b].categoryId)
        /\ TaskDelete("A", b).status = 404
        /\ TaskPost("A", Str(tasks[b].categoryId.id)).status = 400

\* C6: on every route that takes an :id, the answer to a user for an id
\* owned by another user is the same (404, same message, same body) as the
\* answer for an id that no document has, and neither request changes the
\* collections.
C6_NotFoundIndistinguishable ==
    \A q \in Requests :
        /\ q.route \in TaskIdRoutes /\ ForeignTask(q) =>
            \A absent \in AnyTaskId \ DOMAIN tasks :
                /\ Response(Handle(q)) = Response(Handle([q EXCEPT !.id = absent]))
                /\ Handle(q).status = 404 /\ Unchanged(Handle(q))
                /\ Unchanged(Handle([q EXCEPT !.id = absent]))
        /\ q.route \in CatIdRoutes /\ ForeignCategory(q.id, q.actor) =>
            \A absent \in AnyCatId \ DOMAIN cats :
                /\ Response(Handle(q)) = Response(Handle([q EXCEPT !.id = absent]))
                /\ Handle(q).status = 404 /\ Unchanged(Handle(q))
                /\ Unchanged(Handle([q EXCEPT !.id = absent]))

\* B owns a task and a category of its own making, A owns neither, and ids
\* of deleted documents exist: A's GET of B's category is answered as its GET
\* of the deleted one.
C6_Witness ==
    /\ users = AllUsers
    /\ \E b \in DOMAIN tasks : tasks[b].userId = "B"
    /\ \E t \in 1..(nextTask - 1) : t \notin DOMAIN tasks
    /\ \E c \in Customs :
        /\ cats[c].userId = "B"
        /\ CatGet("B", c).status = 200
        /\ CatGet("A", c).status = 404
        /\ CatGet("A", nextCat).status = 404

(***************************************************************************)
(* Category deletion.                                                      *)
(***************************************************************************)
\* C7: DELETE /categories/:id on a non-default category of the caller
\* succeeds and removes the category when its taskCount is 0, and fails with
\* 400, removing nothing, when its taskCount is greater than 0.
C7_DeleteDecidedByTaskCount ==
    \A actor \in users, id \in DOMAIN cats :
        cats[id].userId = actor /\ ~cats[id].isDefault =>
            LET r == CatDelete(actor, id) IN
            /\ cats[id].taskCount = 0 => r.status = 200 /\ id \notin DOMAIN r.cats
            /\ cats[id].taskCount > 0 => r.status = 400 /\ Unchanged(r)

\* every reference of a task is to a category of the task's owner
ReferencesValid(t, c) ==
    \A k \in DOMAIN t :
        \/ t[k].categoryId = Null
        \/ /\ t[k].categoryId.t = "ObjectId"
           /\ t[k].categoryId.id \in DOMAIN c
           /\ c[t[k].categoryId.id].userId = t[k].userId

\* C8: each task's categoryId is empty or the id of an existing category of
\* the task's owner; deleting a category deletes no task, and after a
\* category is deleted no task references it.
C8_ReferencesValid ==
    /\ ReferencesValid(tasks, cats)
    /\ \A actor \in users, id \in AnyCatId :
        LET r == CatDelete(actor, id) IN
        /\ DOMAIN r.tasks = DOMAIN tasks
        /\ id \notin DOMAIN r.cats => CountTasks(r.tasks, id) = 0
        /\ ReferencesValid(r.tasks, r.cats)

\* A user-created category has been deleted (its id is used and no longer
\* stored) while a task that references a category is stored.
C8_Witness ==
    /\ \E c \in 1..(nextCat - 1) : c \notin DOMAIN cats
    /\ Customs = {}
    /\ \E k \in DOMAIN tasks :
        /\ Truthy(tasks[k].categoryId)
        /\ CatDelete(tasks[k].userId, tasks[k].categoryId.id).status = 400

\* C9, as the routes implement it: DELETE /categories/:id on a default
\* category is answered 400 "Cannot delete default categories" to its owner
\* and 404 to every other user, and in both cases leaves every category and
\* every task unchanged; no request removes a default category, makes it
\* non-default or gives it to another user.
C9_DefaultsProtected ==
    /\ \A actor \in users, id \in DOMAIN cats :
        cats[id].isDefault =>
            LET r == CatDelete(actor, id) IN
            /\ Unchanged(r)
            /\ cats[id].userId = actor =>
                /\ r.status = 400
                /\ r.message = Msg("Cannot delete default categories", 0)
            /\ cats[id].userId # actor => r.status = 404
    /\ \A q \in Requests :
        LET after == Handle(q).cats IN
        \A id \in DOMAIN cats :
            cats[id].isDefault =>
                /\ id \in DOMAIN after
                /\ after[id].isDefault
                /\ after[id].userId = cats[id].userId

\* C9, as stated: DELETE /categories/:id on a category with isDefault = true
\* always fails with 400 and leaves every category and every task unchanged.
C9_DefaultDeleteAlways400 ==
    \A actor \in users, id \in DOMAIN cats :
        cats[id].isDefault =>
            CatDelete(actor, id).status = 400 /\ Unchanged(CatDelete(actor, id))

\* A default category is referenced by a task; its owner's DELETE of it is
\* answered 400 and the other user's 404, while the DELETE of a user-created
\* category succeeds.
C9_Witness ==
    /\ users = AllUsers
    /\ \E k \in DOMAIN tasks :
        /\ Truthy(tasks[k].categoryId)
        /\ tasks[k].categoryId.id \in DefaultsOf(tasks[k].userId)
        /\ CatDelete(tasks[k].userId, tasks[k].categoryId.id).status = 400
        /\ \E other \in users \ {tasks[k].userId} :
            CatDelete(other, tasks[k].categoryId.id).status = 404
    /\ \E c \in Customs : CatDelete(cats[c].userId, c).status = 200

(***************************************************************************)
(* Category names (SpecNames).                                             *)
(***************************************************************************)
\* the categories of userId whose name equals name ignoring letter case
SameNamed(c, name, userId) ==
    {k \in DOMAIN c : c[k].userId = userId /\ SameNameIgnoringCase(c[k].name, name)}

\* C10: no user owns two categories whose names are equal ignoring letter
\* case; a create whose name equals (ignoring case) a category of the same
\* owner is answered 400 and stores nothing, and a create of a name that only
\* another owner holds succeeds.
C10_NamesUniqueIgnoringCase ==
    /\ \A a, b \in DOMAIN cats :
        a # b /\ cats[a].userId = cats[b].userId =>
            ~SameNameIgnoringCase(cats[a].name, cats[b].name)
    /\ \A actor \in users, name \in NameInputs :
        LET r == CatPost(actor, name) IN
        /\ SameNamed(cats, name, actor) # {} => r.status = 400 /\ Unchanged(r)
        /\ ( /\ SameNamed(cats, name, actor) = {}
             /\ \E other \in users \ {actor} : SameNamed(cats, name, other) # {} )
           => r.status = 201 /\ SameNamed(r.cats, name, actor) = {r.data}

(***************************************************************************)
(* Requests in flight (SpecConc).                                          *)
(***************************************************************************)
\* C3: once every request that arrived has completed (none is in flight,
\* none was stopped), each category's taskCount equals the number of tasks
\* that reference it, whatever the interleaving of the requests' steps.
C3_CountsExactAfterConcurrency ==
    (\A s \in Slots : reqs[s].pc \in {"idle", "done"}) =>
        \A c \in DOMAIN cats : cats[c].taskCount = CountTasks(tasks, c)

\* slot s holds the only request there has been, a PUT that found its task
\* in category a and carries category b # a, and the request is over
MoveOver(s, a, b) ==
    /\ reqs[s].kind = "PUT" /\ reqs[s].pc \in {"done", "stopped"}
    /\ \A o \in Slots \ {s} : reqs[o].pc = "idle"
    /\ a # b
    /\ reqs[s].id \in DOMAIN reqs[s].tasks0
    /\ reqs[s].tasks0[reqs[s].id].categoryId = Oid(a)
    /\ reqs[s].categoryId = Str(b)

\* C4: a PUT that moves a task from category a to category b and ends, by
\* completing or by stopping at any step, leaves either the task in a with
\* both counts as they were, or the task in b with a's count one lower and
\* b's count one higher.
C4_MoveAllOrNothing ==
    \A s \in Slots, a, b \in ConcCats :
        MoveOver(s, a, b) =>
            LET r == reqs[s] IN
            \/ /\ tasks[r.id].categoryId = Oid(a)
               /\ cats = r.cats0
            \/ /\ tasks[r.id].categoryId = Oid(b)
               /\ cats[a].taskCount = r.cats0[a].taskCount - 1
               /\ cats[b].taskCount = r.cats0[b].taskCount + 1

(***************************************************************************)
(* Category rename (SpecNames).                                            *)
(***************************************************************************)
\* C11: PUT /categories/:id with a name that differs from the category's
\* current name only in letter case succeeds and stores the new name when no
\* other category of the owner has that name ignoring case.
C11_RenameExcludesSelf ==
    \A actor \in users, id \in DOMAIN cats, name \in NameInputs :
        ( /\ cats[id].userId = actor
          /\ name # cats[id].name
          /\ SameNamed(cats, name, actor) = {id} )
        => LET r == CatPut(actor, id, name) IN
           r.status = 200 /\ r.cats[id].name = name

(***************************************************************************)
(* Task creation (Spec).                                                   *)
(***************************************************************************)
\* C12: POST /tasks with a categoryId that no category has, or that a
\* category of another user has, is answered 400 and writes nothing: no task
\* is created and no taskCount changes.  With the id of a category of the
\* caller it is answered 201, stores exactly one new task, of the caller and
\* in that category, and raises that category's taskCount, and no other, by 1.
C12_PostChecksCategory ==
    \A actor \in users, k \in AnyCatId :
        LET r == TaskPost(actor, Str(k)) IN
        IF k \in DOMAIN cats /\ cats[k].userId = actor
        THEN /\ r.status = 201
             /\ r.data \notin DOMAIN tasks
             /\ DOMAIN r.tasks = DOMAIN tasks \cup {r.data}
             /\ \A t \in DOMAIN tasks : r.tasks[t] = tasks[t]
             /\ r.tasks[r.data].userId = actor
             /\ r.tasks[r.data].categoryId = Oid(k)
             /\ r.cats = [cats EXCEPT ![k].taskCount = @ + 1]
        ELSE /\ r.status = 400
             /\ r.message = Msg("Invalid category", 0)
             /\ Unchanged(r)
             /\ r.nextTask = nextTask

\* Both users are registered and tasks are stored; A's POST with its own
\* category is answered 201, with B's category 400, with an unused id 400.
C12_Witness ==
    /\ users = AllUsers
    /\ tasks # <<>>
    /\ \E a, b \in DOMAIN cats :
        /\ cats[a].userId = "A" /\ cats[a].taskCount > 0
        /\ cats[b].userId = "B"
        /\ TaskPost("A", Str(a)).status = 201
        /\ TaskPost("A", Str(b)).status = 400
        /\ TaskPost("A", Str(nextCat)).status = 400


C14_CompletedAtIffCompleted ==
    \A k \in DOMAIN tasks :
        (CompletedAtOf(tasks[k]) # Undefined) <=> tasks[k].completed

(***************************************************************************)
(* C15  For every stored task and every time, the derived status is        *)
(* 'overdue' if and only if the task is not completed, has a dueDate and   *)
(* dueDate < now; it is 'due-soon' if and only if the task is not          *)
(* completed, has a dueDate, is not overdue (now <= dueDate) and           *)
(* dueDate - now < 24h.                                                    *)
(***************************************************************************)
HasDueDate(doc) == doc.dueDate.t = "Date"

C15_StatusDerived ==
    \A k \in DOMAIN tasks, at \in ClockTimes :
        LET doc == tasks[k] IN
        /\ Status(doc, at) = "overdue"
               <=> (~doc.completed /\ HasDueDate(doc) /\ doc.dueDate.id < at)
        /\ Status(doc, at) = "due-soon"
               <=> /\ ~doc.completed /\ HasDueDate(doc)
                   /\ at <= doc.dueDate.id
                   /\ doc.dueDate.id - at < DayMs

\* the statement without the exclusion of overdue tasks from 'due-soon'
C15_DueSoonWheneverWithinDay ==
    \A k \in DOMAIN tasks, at \in ClockTimes :
        LET doc == tasks[k] IN
        /\ Status(doc, at) = "overdue"
               <=> (~doc.completed /\ HasDueDate(doc) /\ doc.dueDate.id < at)
        /\ Status(doc, at) = "due-soon"
               <=> /\ ~doc.completed /\ HasDueDate(doc)
                   /\ doc.dueDate.id - at < DayMs

\* the clock has passed the due date of one open task and is within a day
\* of the due date of another
C15_Witness ==
    /\ \E k \in DOMAIN tasks : Status(tasks[k], now) = "overdue"
    /\ \E k \in DOMAIN tasks : Status(tasks[k], now) = "due-soon"

(***************************************************************************)
(* C16  GET /tasks/stats/overview writes nothing and returns for the       *)
(* caller: total = the number of the caller's tasks, completed + pending = *)
(* total, overdue <= pending, completionRate = round(completed / total *   *)
(* 100), an integer in 0..100, and 0 when total = 0; the tasks of other    *)
(* users never contribute.  Checked on the stored collection and on the    *)
(* stored collection with one more task of any kind.                       *)
(***************************************************************************)
TaskDocs ==
    [userId : AllUsers, categoryId : {Null}, completed : BOOLEAN, dueDate : DueInputs]

\* the documents of t that belong to userId
OwnTasks(t, userId) == SelectSeq(t, LAMBDA d : d.userId = userId)

\* rate is x / y * 100 rounded to the nearest integer, halves upwards
IsRoundedPercent(rate, x, y) ==
    /\ 2 * y * rate <= 200 * x + y
    /\ 200 * x + y < 2 * y * (rate + 1)

C16_StatsOverview ==
    \A u \in AllUsers :
        /\ LET r == TaskStats(u) IN
               r.status = 200 /\ Unchanged(r) /\ r.data = StatsOf(tasks, u, now)
        /\ \A t \in {tasks} \cup {Append(tasks, d) : d \in TaskDocs} :
               LET s == StatsOf(t, u, now) IN
               /\ s.total = Len(OwnTasks(t, u))
               /\ s.completed + s.pending = s.total
               /\ s.overdue <= s.pending
               /\ s.completionRate \in 0..100
               /\ IF s.total = 0 THEN s.completionRate = 0
                  ELSE IsRoundedPercent(s.completionRate, s.completed, s.total)
               /\ s = StatsOf(OwnTasks(t, u), u, now)

\* both users have a task, one of them completed and one overdue, so the
\* overview of either would differ were the other's task counted
C16_Witness ==
    \E u \in AllUsers, v \in AllUsers :
        /\ u # v
        /\ StatsOf(tasks, u, now).completed = 1
        /\ StatsOf(tasks, v, now).overdue = 1

(***************************************************************************)
(* C19  For every request the access guard does exactly one of two things: *)
(* it calls the next handler with the token's payload as the acting user,  *)
(* which it does exactly when a token is present, parses, carries a valid  *)
(* signature, and is within its validity period; or it answers 401 and the *)
(* handler is not called.  The 401 says 'no token' when no token is        *)
(* present, 'token expired' when the verified token's expiry has passed,   *)
(* and that the token is invalid for every other failure.  The guard       *)
(* writes nothing.                                                         *)
(***************************************************************************)
Present(header) == header.present /\ header.token.kind # "empty"
Authentic(token) == token.kind = "jwt" /\ token.signed
HasExpired(token, at) == token.exp.t = "number" /\ token.exp.id * 1000 <= at
NotYetValid(token, at) == token.nbf.t = "number" /\ token.nbf.id * 1000 > at
InvalidTokenMessages == {"Invalid token", "Token is not valid"}

C19_GuardNextOr401 ==
    \A header \in Headers :
        LET g == Auth(header, now)
            token == header.token
            post == GuardedTaskPost(header, Undefined)
        IN
        /\ g.next <=> /\ Present(header) /\ Authentic(token)
                       /\ ~HasExpired(token, now) /\ ~NotYetValid(token, now)
        /\ g.next =>
               /\ g.user.userId = token.userId
               /\ post = TaskPostDue(token.userId, Undefined, Undefined)
        /\ ~g.next =>
               /\ g.status = 401 /\ g.user = Undefined
               /\ post.status = 401 /\ Unchanged(post)
               /\ post.nextTask = nextTask /\ post.nextCat = nextCat
               /\ g.message = "No token, authorization denied" <=> ~Present(header)
               /\ g.message = "Token expired"
                      <=> /\ Present(header) /\ Authentic(token)
                          /\ ~NotYetValid(token, now) /\ HasExpired(token, now)
               /\ g.message \in InvalidTokenMessages
                      <=> /\ Present(header)
                          /\ ~Authentic(token) \/ NotYetValid(token, now)

\* requests have passed the guard and stored tasks, and by now a token that
\* was accepted at the start has expired
C19_Witness ==
    /\ tasks # <<>>
    /\ \E header \in Headers :
           Auth(header, 0).next /\ Auth(header, now).message = "Token expired"

(***************************************************************************)
(* C18  Seeding the default categories is idempotent: applied again to a   *)
(* user who has been seeded, createDefaults completes without error and    *)
(* leaves the categories exactly as they were.                             *)
(***************************************************************************)
C18_SeedDefaultsIdempotent ==
    \A u \in users :
        LET again == InsertMany(cats, DefaultDocs(u), nextCat) IN
        again.error = "none" /\ again.cats = cats

(***************************************************************************)
(* C17  After a registration the new user owns exactly six categories,     *)
(* named Work, Personal, Shopping, Health, Learning and Travel, each with  *)
(* isDefault = true and taskCount = 0; no category of another user is      *)
(* created or changed, and no task is.                                     *)
(***************************************************************************)
CategoriesOf(c, userId) == {k \in DOMAIN c : c[k].userId = userId}

C20_NoSharedIdentity ==
    /\ \A email \in EmailInputs, username \in UsernameInputs :
           (\E k \in DOMAIN accounts :
                \/ SameNameIgnoringCase(accounts[k].email, email)
                \/ SameNameIgnoringCase(accounts[k].username, username))
           => LET r == RegisterAccount(email, username) IN
              r.status = 400 /\ r.accounts = accounts /\ r.cats = cats
    /\ \A i \in DOMAIN accounts, j \in DOMAIN accounts :
           i # j => /\ ~SameNameIgnoringCase(accounts[i].email, accounts[j].email)
                    /\ ~SameNameIgnoringCase(accounts[i].username, accounts[j].username)

C22_NewCategorySortsLast ==
    \A actor \in users, name \in LedgerNames :
        LET r == CatPost(actor, name)
            own == CategoriesOf(cats, actor)
        IN  (r.status = 201 /\ own # {}) =>
                LET new == r.cats[r.data] IN
                /\ new.sortOrder = SetMax({cats[k].sortOrder : k \in own}) + 1
                /\ new.taskCount = 0 /\ ~new.isDefault
                /\ \A k \in own : new.sortOrder > r.cats[k].sortOrder

(***************************************************************************)
(* C25  PATCH /categories/:id/toggle changes only isActive, and PATCH      *)
(* /categories/:id/reorder only sortOrder, of the caller's category: its   *)
(* other fields, every other category and every task are unchanged;        *)
(* toggling twice restores isActive; a reorder whose sortOrder is          *)
(* negative, no integer or absent is answered 400 and changes nothing; a   *)
(* category that is not the caller's is answered 404 and is unchanged.     *)
(***************************************************************************)
\* c1 differs from c at most in document id, and there at most in field
OnlyFieldChanged(c, c1, id, field) ==
    /\ DOMAIN c1 = DOMAIN c
    /\ \A k \in DOMAIN c : k # id => c1[k] = c[k]
    /\ \A f \in DOMAIN c[id] \ {field} : c1[id][f] = c[id][f]

C25_ToggleReorderFrame ==
    \A actor \in users, id \in CatIdInputs :
        LET own == id \in CategoriesOf(cats, actor)
            tg == CatToggle(actor, id)
        IN  /\ tg.tasks = tasks /\ tg.nextTask = nextTask /\ tg.nextCat = nextCat
            /\ IF own
               THEN /\ tg.status = 200
                    /\ OnlyFieldChanged(cats, tg.cats, id, "isActive")
                    /\ tg.cats[id].isActive = ~cats[id].isActive
                    /\ ToggledCats(tg.cats, id) = cats
               ELSE tg.status = 404 /\ tg.cats = cats
            /\ \A sortOrder \in ReorderBodies :
                   LET ro == CatReorderBody(actor, id, sortOrder)
                       valid == sortOrder \in {Num(0), Num(3), Num(TwoTo53)}
                   IN  /\ ro.tasks = tasks /\ ro.nextTask = nextTask /\ ro.nextCat = nextCat
                       /\ IF ~valid THEN ro.status = 400 /\ ro.cats = cats
                          ELSE IF ~own THEN ro.status = 404 /\ ro.cats = cats
                          ELSE /\ ro.status = 200
                               /\ OnlyFieldChanged(cats, ro.cats, id, "sortOrder")
                               /\ ro.cats[id].sortOrder = sortOrder.id

\* a category has been deactivated, another reordered, one created by a
\* user, and tasks reference categories
C25_Witness ==
    /\ \E k \in DOMAIN cats : ~cats[k].isActive
    /\ \E k \in FirstDefaults : cats[k].sortOrder = 3
    /\ Customs # {}
    /\ tasks # <<>>

(***************************************************************************)
(* C23  GET /tasks returns exactly the caller's tasks that satisfy every   *)
(* supplied filter (completed, priority, categoryId, dueDate) and whose    *)
(* title or description contains the search string ignoring letter case,   *)
(* ordered by createdAt descending; a task of another user is never in the *)
(* result.  Checked for well-formed filter values.                         *)
(***************************************************************************)
ListQueries ==
    {ListQuery(c, pr, Undefined, d, sr) :
        c \in {"undefined", "true", "false"}, pr \in {"undefined", "low", "high"},
        d \in {Undefined, DateVal(HalfDay)}, sr \in SearchInputs}

C23_ListExactlyMatching ==
    \A actor \in users, q \in ListQueries :
        LET r == TaskList(actor, q)
            expected ==
                {k \in DOMAIN tasks :
                    /\ tasks[k].userId = actor
                    /\ q.completed = "undefined" \/ tasks[k].completed = (q.completed = "true")
                    /\ q.priority = "undefined" \/ tasks[k].priority = q.priority
                    /\ q.dueDate = Undefined \/ tasks[k].dueDate = q.dueDate
                    /\ \/ q.search = <<>>
                       \/ Contains(tasks[k].title, q.search)
                       \/ Contains(tasks[k].description, q.search)}
        IN  /\ r.status = 200
            /\ {r.data[i] : i \in DOMAIN r.data} = expected
            /\ Len(r.data) = Cardinality(expected)
            /\ \A i \in DOMAIN r.data, j \in DOMAIN r.data :
                   i < j => tasks[r.data[i]].createdAt.id >= tasks[r.data[j]].createdAt.id

(***************************************************************************)
(* C24  After any sequence of task create, update and delete requests,     *)
(* GET /categories/stats/overview reports withTasks = the number of the    *)
(* caller's categories referenced by at least one task, and topCategories  *)
(* holds at most 5 categories in non-increasing taskCount order; for a     *)
(* user without tasks, creating one task in a category gives withTasks = 1 *)
(* and taskCount = 1, and deleting it gives taskCount = 0.                 *)
(***************************************************************************)
Referenced(t, c, userId) ==
    {k \in DOMAIN c : c[k].userId = userId /\ CountTasks(t, k) > 0}

C24_CategoryStatsOverview ==
    \A u \in users :
        LET s == CatStatsOverview(cats, u)
            top == s.topCategories
        IN  /\ s.withTasks = Cardinality(Referenced(tasks, cats, u))
            /\ Len(top) <= TopLimit
            /\ \A i \in DOMAIN top, j \in DOMAIN top :
                   i < j => cats[top[i]].taskCount >= cats[top[j]].taskCount
            /\ \A k \in CatIdInputs \ {NoDoc} :
                   LET r == TaskPost(u, Str(k)) IN
                   (r.status = 201 /\ \A t \in DOMAIN tasks : tasks[t].userId # u) =>
                       /\ CatStatsOverview(r.cats, u).withTasks = 1
                       /\ r.cats[k].taskCount = 1
            /\ \A t \in DOMAIN tasks :
                   (tasks[t].userId = u /\ Truthy(tasks[t].categoryId)
                        /\ CountTasks(tasks, tasks[t].categoryId.id) = 1) =>
                       TaskDelete(u, t).cats[tasks[t].categoryId.id].taskCount = 0

(***************************************************************************)
(* C26  A PUT /tasks/:id whose body contains no categoryId field, applied  *)
(* to a task that references category C, leaves the task's categoryId and  *)
(* the taskCount of C and of every other category unchanged.               *)
(***************************************************************************)
C26_PutWithoutCategoryFrame ==
    \A actor \in users, id \in DOMAIN tasks :
        LET r == TaskPut(actor, id, Undefined) IN
        (r.status = 200 /\ Truthy(tasks[id].categoryId)) =>
            /\ r.tasks[id].categoryId = tasks[id].categoryId
            /\ \A k \in DOMAIN cats : r.cats[k].taskCount = cats[k].taskCount

(***************************************************************************)
(* C27  A POST /tasks naming category C and a DELETE /categories/C of the  *)
(* same user run concurrently: under every interleaving of their steps     *)
(* (category lookup, reference count, task save, category removal with its *)
(* detach hook, counter increment), once both have completed no task has   *)
(* the deleted category as its categoryId.                                 *)
(***************************************************************************)
C27_NoTaskInDeletedCategory ==
    (\A s \in Slots : reqs[s].pc \in {"idle", "done"}) =>
        \A t \in DOMAIN tasks :
            tasks[t].categoryId.t = "ObjectId" => tasks[t].categoryId.id \in DOMAIN cats

(***************************************************************************)
(* C28  Two POST /categories requests of the same user whose names are     *)
(* equal ignoring letter case run concurrently: under every interleaving   *)
(* of their lookups and saves, once both have completed at most one has    *)
(* succeeded and at most one category with such a name is stored.          *)
(***************************************************************************)
C28_OneOfTwoCreatesWins ==
    \A s1 \in Slots : \A s2 \in Slots \ {s1} :
        ( /\ reqs[s1].pc = "done" /\ reqs[s2].pc = "done"
          /\ SameNameIgnoringCase(reqs[s1].name, reqs[s2].name) )
        => /\ ~(reqs[s1].status = 201 /\ reqs[s2].status = 201)
           /\ Cardinality(SameNamed(cats, reqs[s1].name, reqs[s1].actor)) <= 1

(***************************************************************************)
(* C29  GET /tasks/stats/overview answers with completed + pending = total *)
(* and overdue <= pending, even when task create, delete or toggle         *)
(* requests of the same user interleave with its separate count queries.   *)
(***************************************************************************)
C29_StatsConsistentUnderWrites ==
    (reqs[StatsSlot].kind = "GET stats" /\ reqs[StatsSlot].pc = "done") =>
        LET d == reqs[StatsSlot].data IN
        /\ d["completed"] + d["pending"] = d["total"]
        /\ d["overdue"] <= d["pending"]

(***************************************************************************)
(* C30  After the client's logout() has completed, the auth state has      *)
(* user = null, token = null and isAuthenticated = false, and the stored   *)
(* 'authToken' and 'user' entries are removed, whether the POST            *)
(* /auth/logout call succeeded or failed.                                  *)
(***************************************************************************)
C30_LogoutClears ==
    (client.call.kind = "logout" /\ client.call.pc = "done") =>
        /\ client.state.user = NoValue
        /\ client.state.token = NoValue
        /\ ~client.state.isAuthenticated
        /\ client.storage = EmptyStorage

\* a logout of a logged-in user has completed after its POST failed
C30_Witness ==
    /\ client.call.kind = "logout" /\ client.call.pc = "done"
    /\ client.call.outcome = "error"
    /\ client.call.state0.isAuthenticated
    /\ client.call.state0.token # NoValue

(***************************************************************************)
(* C31  A PUT /tasks/:id never changes the task's userId or its completed  *)
(* and completedAt fields, whatever the request body contains: only title, *)
(* description, priority, categoryId and dueDate can change, and no other  *)
(* task changes.                                                           *)
(***************************************************************************)
PutBodyFull ==
    [title |-> <<"x">>, priority |-> "low", dueDate |-> DateVal(3 * HalfDay),
     categoryId |-> Str(1), userId |-> UserIds[2], completed |-> TRUE,
     completedAt |-> DateVal(0)]

\* every body with a title and any of the other fields; completed and
\* userId with either value
PutBodies ==
    {[f \in S \cup {"title"} |->
         IF f = "completed" THEN c ELSE IF f = "userId" THEN u ELSE PutBodyFull[f]] :
        S \in SUBSET DOMAIN PutBodyFull, c \in BOOLEAN, u \in AllUsers}

C31_PutKeepsOwnerAndCompletion ==
    \A actor \in users, id \in DOMAIN tasks, body \in PutBodies :
        LET r == TaskPutBody(actor, id, body) IN
        /\ DOMAIN r.tasks = DOMAIN tasks
        /\ \A k \in DOMAIN tasks \ {id} : r.tasks[k] = tasks[k]
        /\ DOMAIN r.tasks[id] = DOMAIN tasks[id]
        /\ \A f \in DOMAIN tasks[id] \ UpdatablePaths : r.tasks[id][f] = tasks[id][f]
        /\ r.status # 200 => r.tasks = tasks

\* a completed task whose owner sends a body with completed false and
\* another user's id, and is answered 200
C31_Witness ==
    \E id \in DOMAIN tasks :
        /\ tasks[id].completed
        /\ \E body \in PutBodies :
              /\ {"completed", "userId", "completedAt"} \subseteq DOMAIN body
              /\ ~body.completed /\ body.userId # tasks[id].userId
              /\ TaskPutBody(tasks[id].userId, id, body).status = 200

(***************************************************************************)
(* C32  In every reachable state of the client AuthProvider,               *)
(* isAuthenticated is true if and only if user is non-null, under any      *)
(* sequence of login, register, logout, checkAuth and clearError calls     *)
(* with any API outcomes.                                                  *)
(***************************************************************************)
C32_AuthenticatedIffUser ==
    client.state.isAuthenticated <=> client.state.user # NoValue

\* a user is logged in, and a user has been logged out again by a check
\* whose API call failed
C32_Witness ==
    /\ client.call.kind = "checkAuth" /\ client.call.pc = "done"
    /\ client.call.outcome = "error"
    /\ client.call.state0.isAuthenticated
    /\ ~client.state.isAuthenticated

(***************************************************************************)
(* C33  Whenever the client auth state has isAuthenticated = true, the     *)
(* stored 'authToken' entry exists and equals state.token; in particular   *)
(* after a 401 response, on which the response interceptor removes the     *)
(* stored token, the auth state is logged out.                             *)
(***************************************************************************)
C33_AuthenticatedHasStoredToken ==
    client.state.isAuthenticated =>
        /\ client.storage.authToken # NoValue
        /\ client.storage.authToken = client.state.token

(***************************************************************************)
(* C35  A client login that fails (the API call rejects, or its response   *)
(* has success = false) leaves user, token and isAuthenticated as they     *)
(* were, stores no entry (no entry of the storage gets a value), sets      *)
(* error to a message and rejects to its caller; a register that fails,    *)
(* by itself or in the login it calls, likewise sets neither user nor      *)
(* token.                                                                  *)
(***************************************************************************)
FailedOutcomes == {"refused", "unauthorized", "error"}

LoadingCalls == {"login", "register", "checkAuth", "initializeAuth"}

C37_LoadingEnds ==
    (CallInFlight /\ client.call.kind \in LoadingCalls)
        ~> (~CallInFlight /\ ~client.state.isLoading)

\* a register has ended in its inner login, on a storage call that
\* rejected, and isLoading is false
C37_Witness ==
    /\ client.call.kind = "register" /\ client.call.pc = "rejected"
    /\ client.call.outcome = "storage error"
    /\ ~client.state.isLoading

(***************************************************************************)
(* C34  When a TaskProvider operation and a fetchTasks run concurrently,   *)
(* under every ordering of the two responses the client's task list never  *)
(* holds two entries with the same id, and once the calls have returned,   *)
(* all of them successfully (no call is open, error is null), the list     *)
(* holds every task the server holds.                                      *)
(***************************************************************************)
Succeeded(call) == ~call.response.thrown /\ call.response.success
OpenCalls == {s \in Slots : client.calls[s].pc # "idle"}

C34_ConcurrentFetchConsistent ==
    /\ \A i \in 1..Len(client.state.tasks), j \in 1..Len(client.state.tasks) :
           i # j => client.state.tasks[i].id # client.state.tasks[j].id
    /\ (OpenCalls = {} /\ client.state.error = NoValue)
       => DOMAIN tasks \subseteq ListIds(client.state.tasks)

(***************************************************************************)
(* C36  When a TaskProvider operation on a task (create, update, delete,   *)
(* toggle) or on a category (create, update, delete) gets an API error or  *)
(* a response with success = false, the client's tasks and categories are  *)
(* unchanged and error is set to a message; the two lists change only in a *)
(* step in which a call returns with a successful response.                *)
(***************************************************************************)
Returns(s) == client.calls[s].pc = "answered" /\ client'.calls[s].pc = "idle"

C36_FailedOperationFrame ==
    [][/\ \A s \in Slots :
             (/\ Returns(s)
              /\ client.calls[s].kind \in TaskOps \cup CategoryOps
              /\ ~Succeeded(client.calls[s]))
             => /\ client'.state.tasks = client.state.tasks
                /\ client'.state.categories = client.state.categories
                /\ client'.state.error # NoValue
       /\ (\/ client'.state.tasks # client.state.tasks
           \/ client'.state.categories # client.state.categories)
          => \E s \in Slots : Returns(s) /\ Succeeded(client.calls[s])]_vars

\* a deleteTask has failed and returned: the lists still hold their entries
\* and error holds the operation's message
C36_Witness ==
    /\ OpenCalls = {}
    /\ client.state.error = FailedTo("deleteTask")
    /\ client.state.tasks # <<>>
    /\ client.state.categories # <<>>

(***************************************************************************)
(* C38  In the TaskProvider, isLoading is true whenever a fetchTasks or a  *)
(* createTask call has not returned, also when two such calls overlap and  *)
(* one returns before the other.                                           *)
(***************************************************************************)
C38_LoadingWhileInFlight ==
    (\E s \in OpenCalls : client.calls[s].kind \in LoadingOps)
        => client.state.isLoading

(***************************************************************************)
(* C40  In the mock server, after any sequence of register, task create,   *)
(* task update (PUT with any JSON body), task delete, toggle and category  *)
(* create requests, no two tasks share an id, no two categories share an   *)
(* id, no two users share an id, and a task's id and userId never change   *)
(* after its creation (a step that keeps the number of tasks keeps the id  *)
(* and the userId of each).                                                *)
(***************************************************************************)
UniqueIds(list) ==
    \A i \in 1..Len(list), j \in 1..Len(list) : i # j => list[i].id # list[j].id

C40_MockIdsUniqueAndFixed ==
    [][/\ UniqueIds(tasks') /\ UniqueIds(cats') /\ UniqueIds(accounts')
       /\ Len(tasks') = Len(tasks) =>
             \A i \in 1..Len(tasks) :
                 tasks'[i].id = tasks[i].id /\ tasks'[i].userId = tasks[i].userId]_vars

(***************************************************************************)
(* C39  After a shutdown trigger (SIGTERM, SIGINT, uncaught exception,     *)
(* unhandled rejection) the server process eventually exits; it exits with *)
(* code 0 only after the HTTP server has closed and then the database      *)
(* connection has closed, in that order, and otherwise with code 1 by the  *)
(* 10-second timer; also when several triggers arrive.                     *)
(***************************************************************************)
Logged(line) == {i \in 1..Len(reqs.log) : reqs.log[i] = line}

C39_ShutdownExits ==
    /\ [](reqs.exited /\ reqs.code = 0 =>
             /\ ~reqs.listening /\ reqs.connections = 0 /\ ~reqs.dbOpen
             /\ \E i \in Logged(LogServerClosed) : \E j \in Logged(LogDbClosed) : i < j
             /\ Logged(LogForced) = {})
    /\ [](reqs.exited /\ reqs.code # 0 =>
             /\ reqs.code = 1
             /\ reqs.log[Len(reqs.log)] = LogForced
             /\ Logged(LogDbClosed) = {})
    /\ (reqs.triggers > 0 ~> reqs.exited)

\* the process has exited with code 0 after two or more triggers
C39_Witness ==
    reqs.exited /\ reqs.code = 0 /\ reqs.triggers >= 2

=============================================================================
